---------------------------- MODULE Spec2Model ----------------------------
(***************************************************************************)
(* Model of the Metamorphosis AI optimization gateway (backend/).          *)
(*                                                                         *)
(* Four specifications share this module:                                  *)
(*   SpecPII  the PII guard (mask / unmask / clear) called directly, for   *)
(*            several request ids, over all short texts;                   *)
(*   SpecRL   the sliding-window rate limiter behind the HTTP middleware,  *)
(*            with concurrent requests and a monotonic clock;              *)
(*   Spec     one request running through the gateway / mcp_gateway        *)
(*            handler, stage by stage;                                     *)
(*   SpecFn   single calls of the pipeline's functions (compress and its   *)
(*            _lightweight_compress, decide_route, enforce_token_limit,    *)
(*            get_fallback, infer, _run_inference_with_failover) on        *)
(*            arguments drawn from bounded sets.                           *)
(*                                                                         *)
(* Text is modelled as a sequence of atoms (strings).  An atom is a word,  *)
(* a PII value that one of the regular expressions or the NER model        *)
(* recognises as a whole, or a literal such as a placeholder.              *)
(***************************************************************************)
EXTENDS Integers, Sequences, FiniteSets, TLC

VARIABLES
    \* ---- PIIGuard (pii_guard.py) ----
    nlp,              \* PIIGuard.nlp is loaded (spaCy model present)
    redaction_store,  \* PIIGuard._redaction_store: request id -> redaction map
    pii_phase,        \* per id: "new" | "masked" | "cleared" | "raised" (last mask/clear
                      \* call, or the handler raised after mask)
    pii_prompt,       \* per id: text of the latest mask call
    pii_masked,       \* per id: masked text returned by the latest mask call
    last_unmask,      \* the latest unmask call: [id, input, output, phase]
    \* ---- SlidingWindowRateLimiter (rate_limiter.py) and its middleware ----
    now,              \* time.monotonic(), in ticks
    timestamps,       \* SlidingWindowRateLimiter._timestamps: key -> list of times
    in_flight,        \* per key: /gateway requests suspended at await call_next
    admitted_at,      \* per key: the latest times at which is_allowed returned allowed
    rl_response,      \* the response the middleware returned last
    \* ---- one request in the gateway / mcp_gateway handler (main.py) ----
    gw_pc,            \* the stage the handler runs next
    endpoint,         \* "/gateway" or "/mcp/gateway"
    req,              \* the GatewayRequest body
    mcp_req,          \* the MCPRequest the handler builds up
    frame,            \* the handler's local variables
    datahaven_up,     \* the DataHaven service answers during this request
    memory_up,        \* the memory layer's collection answers during this request
    memory_docs,      \* MemoryLayer documents, oldest first: [id, text, metadata]
    background_tasks, \* BackgroundTasks.add_task, in order
    backend_calls,    \* inference backends contacted: [backend, model, messages]
    datahaven_log,    \* log entries the DataHaven service accepted
    response,         \* the HTTP response of the handler
    \* ---- one call of a function of the pipeline ----
    fn_call,          \* the function and its arguments
    fn_result         \* what the call returned, once it has returned

varsPII == <<nlp, redaction_store, pii_phase, pii_prompt, pii_masked, last_unmask>>
varsRL == <<now, timestamps, in_flight, admitted_at, rl_response>>
varsGW == <<gw_pc, endpoint, req, mcp_req, frame, datahaven_up, memory_up, memory_docs,
            background_tasks, backend_calls, datahaven_log, response>>
varsFn == <<fn_call, fn_result>>
vars == <<varsPII, varsRL, varsGW, varsFn>>

-----------------------------------------------------------------------------
(* Generic helpers *)

Max(a, b) == IF a >= b THEN a ELSE b

Range(s) == {s[i] : i \in 1..Len(s)}

RECURSIVE SeqsUpTo(_, _)
\* all sequences over S of length 1..n
SeqsUpTo(S, n) ==
    IF n = 0 THEN {}
    ELSE LET shorter == SeqsUpTo(S, n - 1)
         IN  {<<a>> : a \in S} \cup shorter
                \cup {Append(t, a) : t \in shorter, a \in S}

\* index of the first occurrence of atom a in text t, 0 when absent
FirstIndex(t, a) ==
    IF \E i \in 1..Len(t) : t[i] = a
    THEN CHOOSE i \in 1..Len(t) : t[i] = a /\ \A j \in 1..(i - 1) : t[j] # a
    ELSE 0

\* str.replace(old, new, 1)
ReplaceFirst(t, old, new) ==
    LET i == FirstIndex(t, old)
    IN  IF i = 0 THEN t ELSE [t EXCEPT ![i] = new]

\* str.replace(old, new): the replacement is a sequence of atoms
RECURSIVE ReplaceAll(_, _, _)
ReplaceAll(t, old, new) ==
    IF t = <<>> THEN <<>>
    ELSE (IF Head(t) = old THEN new ELSE <<Head(t)>>) \o ReplaceAll(Tail(t), old, new)

-----------------------------------------------------------------------------
(* PII guard: pii_guard.py *)

\* _REGEX_PATTERNS, in dict order
REGEX_TYPES == <<"EMAIL", "PHONE", "SSN", "CREDIT_CARD", "IP_ADDRESS">>
\* values of _SPACY_LABEL_MAP
NER_TYPES == {"NAME", "ORG", "LOCATION"}
PiiTypes == Range(REGEX_TYPES) \cup NER_TYPES

\* longest text given to mask() when the PII guard is called directly
MaxLen == 2

\* largest per-type counter a text of the model can need
MaxCount == MaxLen + 2

\* f"<{entity_type}_{count}>"
Placeholder(type, count) == "<" \o type \o "_" \o ToString(count) \o ">"

PlaceholderLiterals == {Placeholder(t, n) : t \in PiiTypes, n \in 1..MaxCount}

\* what the regular expression of a type, or the NER label map, makes of an atom
EntityType(atom) ==
    CASE atom \in {"e1", "e2"} -> "EMAIL"
      [] atom = "p1" -> "PHONE"
      [] atom = "s1" -> "SSN"
      [] atom = "c1" -> "CREDIT_CARD"
      [] atom = "i1" -> "IP_ADDRESS"
      [] atom = "n1" -> "NAME"
      [] atom = "o1" -> "ORG"
      [] atom = "g1" -> "LOCATION"
      [] OTHER -> "NONE"

\* re.finditer(pattern, text): the matched strings, left to right
RECURSIVE Matches(_, _)
Matches(types, text) ==
    IF text = <<>> THEN <<>>
    ELSE (IF EntityType(Head(text)) \in types THEN <<Head(text)>> ELSE <<>>)
            \o Matches(types, Tail(text))

\* a redaction map is a Python dict: a sequence of <<placeholder, original>>
\* pairs in insertion order
MapKeys(m) == {m[i][1] : i \in 1..Len(m)}
MapValues(m) == {m[i][2] : i \in 1..Len(m)}

\* d[k] = v
DictSet(m, k, v) ==
    IF k \in MapKeys(m)
    THEN [i \in 1..Len(m) |-> IF m[i][1] = k THEN <<k, v>> ELSE m[i]]
    ELSE Append(m, <<k, v>>)

NoCounters == [t \in PiiTypes |-> 0]

\* one match that mask() does not skip: pii_guard.py lines 66-70 and 81-85,
\* the counter variant that forgets to store the incremented counter
AssignPlaceholderStale(st, type, original) ==
    LET count == st.counters[type] + 1
        placeholder == Placeholder(type, count)
    IN  [masked   |-> ReplaceFirst(st.masked, original, placeholder),
         map      |-> DictSet(st.map, placeholder, original),
         counters |-> st.counters]

AssignPlaceholder(st, type, original) ==
    LET count == st.counters[type] + 1
        placeholder == Placeholder(type, count)
    IN  [masked   |-> ReplaceFirst(st.masked, original, placeholder),
         map      |-> DictSet(st.map, placeholder, original),
         counters |-> [st.counters EXCEPT ![type] = count]]

\* the inner loop of the regex pass over the matches of one pattern
RECURSIVE RegexMatches(_, _, _)
RegexMatches(st, type, matches) ==
    IF matches = <<>> THEN st
    ELSE LET original == Head(matches)
         IN  IF original \in MapValues(st.map)
             THEN RegexMatches(st, type, Tail(matches))
             ELSE RegexMatches(AssignPlaceholder(st, type, original), type, Tail(matches))

\* the outer loop: finditer runs over the text as masked so far
RECURSIVE RegexPass(_, _)
RegexPass(st, types) ==
    IF types = <<>> THEN st
    ELSE RegexPass(RegexMatches(st, Head(types), Matches({Head(types)}, st.masked)),
                   Tail(types))

\* the spaCy pass: doc.ents of the masked text, mapped labels only
RECURSIVE NerPass(_, _)
NerPass(st, ents) ==
    IF ents = <<>> THEN st
    ELSE NerPass(AssignPlaceholder(st, EntityType(Head(ents)), Head(ents)), Tail(ents))

\* PIIGuard.mask without the store: [masked, map, counters]
mask(text, withNlp) ==
    LET afterRegex == RegexPass([masked |-> text, map |-> <<>>, counters |-> NoCounters],
                                REGEX_TYPES)
    IN  IF withNlp
        THEN NerPass(afterRegex, Matches(NER_TYPES, afterRegex.masked))
        ELSE afterRegex

\* the loop of PIIGuard.unmask over redaction_map.items()
RECURSIVE UnmaskWith(_, _)
UnmaskWith(text, m) ==
    IF m = <<>> THEN text
    ELSE UnmaskWith(ReplaceAll(text, m[1][1], <<m[1][2]>>), Tail(m))

\* self._redaction_store.get(request_id, {})
StoreGet(store, id) == IF id \in DOMAIN store THEN store[id] ELSE <<>>

\* PIIGuard.unmask
unmask(text, id, store) == UnmaskWith(text, StoreGet(store, id))

\* self._redaction_store[request_id] = redaction_map
StorePut(store, id, m) ==
    [k \in DOMAIN store \cup {id} |-> IF k = id THEN m ELSE store[k]]

\* a clear that removes nothing
clear_nothing(store, id) == store

\* PIIGuard.clear: self._redaction_store.pop(request_id, None)
clear(store, id) == [k \in DOMAIN store \ {id} |-> store[k]]

\* info["redaction_count"]
RedactionCount(m) == Len(m)

-----------------------------------------------------------------------------
(* Rate limiter: rate_limiter.py, and rate_limit_middleware of main.py *)

\* RATE_LIMIT_REQUESTS, the limiter's max_requests
max_requests == 2
\* RATE_LIMIT_WINDOW_SEC, the limiter's window_seconds
window_seconds == 2
\* clock ticks per second: the resolution of time.monotonic() in the model
TicksPerSec == 1 + 1
\* /gateway requests that are inside the handler at a time
MaxInFlight == 3

WindowTicks == window_seconds * TicksPerSec
\* the clock stops one tick after a timestamp taken at 0 has left the window
MaxClock == WindowTicks + 1

\* client addresses (_client_ip); buckets of different keys share nothing
RlKeys == {"ip1"}
RlPaths == {"/gateway", "/mcp/gateway"}

\* ts_list[:] = [t for t in ts_list if t > cutoff]
Prune(ts_list, cutoff) == SelectSeq(ts_list, LAMBDA t : t > cutoff)

SeqMin(ts_list) == CHOOSE t \in Range(ts_list) : \A u \in Range(ts_list) : t <= u

\* int(self.window_seconds - (now - oldest)) + 1, then max(0, .)
RetryAfter(t, oldest) == Max(0, ((WindowTicks - (t - oldest)) \div TicksPerSec) + 1)

\* is_allowed with the comparison len(ts_list) <= max_requests
is_allowed_off_by_one(ts_list, t) ==
    LET pruned == Prune(ts_list, t - WindowTicks)
    IN  IF Len(pruned) <= max_requests
        THEN [allowed |-> TRUE, retry_after |-> 0, ts_list |-> pruned]
        ELSE [allowed |-> FALSE, retry_after |-> RetryAfter(t, SeqMin(pruned)),
              ts_list |-> pruned]

\* SlidingWindowRateLimiter.is_allowed: [allowed, retry_after, ts_list]
is_allowed(ts_list, t) ==
    LET pruned == Prune(ts_list, t - WindowTicks)
    IN  IF Len(pruned) < max_requests
        THEN [allowed |-> TRUE, retry_after |-> 0, ts_list |-> pruned]
        ELSE [allowed |-> FALSE, retry_after |-> RetryAfter(t, SeqMin(pruned)),
              ts_list |-> pruned]

\* SlidingWindowRateLimiter.record
record(ts_list, t) == Append(ts_list, t)

NoResponse ==
    [path |-> "", status |-> 0, route |-> "", retry_after |-> 0, recorded |-> FALSE]

\* requests suspended at await call_next, over all keys
RECURSIVE SumOver(_, _)
SumOver(f, S) ==
    IF S = {} THEN 0
    ELSE LET k == CHOOSE x \in S : TRUE IN f[k] + SumOver(f, S \ {k})

\* the last n elements of a sequence
LastN(seq, n) == IF Len(seq) <= n THEN seq ELSE SubSeq(seq, Len(seq) - n + 1, Len(seq))

-----------------------------------------------------------------------------
(* The pipeline's pure parts: configuration, guardrails, prompt builder,   *)
(* shrinker, policy engine, post-processor, event logger                   *)

\* Optional[...] values: None is the empty sequence, a value x is <<x>>
None == <<>>
Some(x) == <<x>>

\* str.lower() and str.upper() on provider names
lower(s) ==
    CASE s = "LOCAL" -> "local"
      [] s = "GROQ" -> "groq"
      [] s = "OPENAI" -> "openai"
      [] OTHER -> s
upper(s) ==
    CASE s = "local" -> "LOCAL"
      [] s = "groq" -> "GROQ"
      [] s = "openai" -> "OPENAI"
      [] OTHER -> s

\* config.py
TOKEN_THRESHOLD == 500
LOCAL_MODEL == "llama3.2"
OPENAI_MODEL == "gpt-3.5-turbo"
GROQ_MODEL == "llama-3.3-70b-versatile"
\* prices per 1000 tokens, in units of 0.0001 dollar
COST_PER_1K_INPUT == 5
COST_PER_1K_OUTPUT == 15

\* Stages of event_logger.py that the handlers emit
Stages ==
    [POLICY_FETCH |-> "policy_fetch", INPUT_GUARDRAILS |-> "input_guardrails",
     PII_GUARD |-> "pii_guard", MEMORY_RETRIEVAL |-> "memory_retrieval",
     PROMPT_BUILD |-> "prompt_build", PROMPT_COMPRESS |-> "prompt_compress",
     ROUTING |-> "routing", INFERENCE |-> "inference",
     OUTPUT_GUARDRAILS |-> "output_guardrails", POST_PROCESS |-> "post_process"]

\* **extra of a call that passes no further keyword
NoExtra == <<>>

\* MCPRequest.add_audit that puts the new entry in front
add_audit_front(trail, stage, route_decision, provider, token_count, extra) ==
    <<[stage |-> stage, route_decision |-> route_decision, provider |-> provider,
       token_count |-> token_count, metadata |-> extra]>> \o trail

\* MCPRequest.add_audit on the audit trail (timestamps and durations left out)
add_audit(trail, stage, route_decision, provider, token_count, extra) ==
    Append(trail, [stage |-> stage, route_decision |-> route_decision,
                   provider |-> provider, token_count |-> token_count,
                   metadata |-> extra])

\* emit_event that writes the new entry over the last one
emit_event_over_last(trail, stage, route_decision, provider, token_count, extra) ==
    add_audit(SubSeq(trail, 1, Len(trail) - 1), stage, route_decision, provider,
              token_count, extra)

emit_event(trail, stage, route_decision, provider, token_count, extra) ==
    add_audit(trail, stage, route_decision, provider, token_count, extra)

emit_error(trail, stage, error) ==
    emit_event(trail, stage, None, None, None, [status |-> "error", error |-> error])

\* InputGuardrails.check: "inj" stands for a text one of _INJECTION_PATTERNS
\* matches, "tox" for a phrase of _TOXICITY_BLOCKLIST
INJECTION_REASON ==
    <<"Prompt appears to contain manipulation or jailbreak attempts. Please rephrase your request.">>
TOXICITY_REASON == <<"Your request contains content that violates our safety policy.">>
input_guardrails_check(prompt) ==
    IF "inj" \in Range(prompt) THEN [passed |-> FALSE, reason |-> INJECTION_REASON]
    ELSE IF "tox" \in Range(prompt) THEN [passed |-> FALSE, reason |-> TOXICITY_REASON]
    ELSE [passed |-> TRUE, reason |-> <<>>]

\* OutputGuardrails.check: "harm" stands for a text one of
\* _OUTPUT_HARMFUL_PATTERNS matches; leaks are only flagged in the metadata
SAFE_MESSAGE ==
    <<"The model's response was filtered for safety. Please try a different prompt.">>
\* check that reports a harmful text as not passed but hands the text back
output_guardrails_check_keeps_text(text) ==
    IF text # <<>> /\ Head(text) = "[Error]" THEN [passed |-> TRUE, text |-> text]
    ELSE IF "harm" \in Range(text) THEN [passed |-> FALSE, text |-> text]
    ELSE [passed |-> TRUE, text |-> text]

output_guardrails_check(text) ==
    IF text # <<>> /\ Head(text) = "[Error]" THEN [passed |-> TRUE, text |-> text]
    ELSE IF "harm" \in Range(text) THEN [passed |-> FALSE, text |-> SAFE_MESSAGE]
    ELSE [passed |-> TRUE, text |-> text]

\* prompt_builder.py
SYSTEM_PROMPT == <<"sys">>

Msg(role, content) == [role |-> role, content |-> content]

\* "\n---\n".join(context)
RECURSIVE Join(_)
Join(context) ==
    IF context = <<>> THEN <<>>
    ELSE IF Len(context) = 1 THEN context[1]
    ELSE context[1] \o <<"---">> \o Join(Tail(context))

\* encoder.encode(text) raises ValueError on the text of a special token
\* ("sp", such as <|endoftext|>)
Encodable(text) == "sp" \notin Range(text)

\* whitespace typed in the text itself; between two neighbouring words of a
\* text stands one space that is not written out
WHITESPACE == {" "}

\* len(encoder.encode(word)) for a word with and without a space before it:
\* the encoder joins the space to the word. A word is one token, "big" is a
\* passage of TOKEN_THRESHOLD tokens, and "rare" is a word the vocabulary has
\* as one token only together with its leading space
WordTokens(word, spaced) ==
    IF word = "big" THEN TOKEN_THRESHOLD
    ELSE IF word = "rare" /\ ~spaced THEN 2
    ELSE 1

\* len(encoder.encode(text)), from left to right; a whitespace before a word
\* is part of the word's first token
RECURSIVE EncodeFrom(_, _)
EncodeFrom(text, spaced) ==
    IF text = <<>> THEN 0
    ELSE IF Head(text) \in WHITESPACE
    THEN (IF Tail(text) # <<>> /\ Head(Tail(text)) \notin WHITESPACE THEN 0 ELSE 1)
         + EncodeFrom(Tail(text), TRUE)
    ELSE WordTokens(Head(text), spaced) + EncodeFrom(Tail(text), TRUE)

EncodeLen(text) == EncodeFrom(text, FALSE)

RECURSIVE CountLoop(_)
CountLoop(messages) ==
    IF messages = <<>> THEN 0
    ELSE 4 + EncodeLen(Head(messages).content) + CountLoop(Tail(messages))

\* PromptBuilder._count_messages
_count_messages(messages) == CountLoop(messages) + 2

\* PromptBuilder.build: [raises, messages, token_count]
build(masked_prompt, context) ==
    LET messages ==
            <<Msg("system", SYSTEM_PROMPT)>>
            \o (IF context # <<>>
                THEN <<Msg("system", <<"Relevant", "context:">> \o Join(context))>>
                ELSE <<>>)
            \o <<Msg("user", masked_prompt)>>
    IN  [raises |-> \E i \in 1..Len(messages) : ~Encodable(messages[i].content),
         messages |-> messages,
         token_count |-> _count_messages(messages)]

\* prompt_shrinker.py: the members of _STOP_WORDS the model's texts use
STOP_WORDS == {"the", "a"}

\* the loop of _lightweight_compress over the words
RECURSIVE KeepWords(_, _, _)
KeepWords(words, kept, target_len) ==
    IF words = <<>> THEN kept
    ELSE IF Head(words) \in STOP_WORDS THEN KeepWords(Tail(words), kept, target_len)
    ELSE LET k == Append(kept, Head(words))
         IN  IF Len(k) >= target_len THEN k ELSE KeepWords(Tail(words), k, target_len)

\* text.split()
split(text) == SelectSeq(text, LAMBDA a : a \notin WHITESPACE)

_lightweight_compress(text) ==
    LET words == split(text)
    IN  IF words = <<>> THEN text
        ELSE LET target_len == Max((Len(words) * 6) \div 10, 1)
                 kept == KeepWords(words, <<>>, target_len)
             IN  IF kept = <<>> THEN SubSeq(words, 1, target_len) ELSE kept

\* PromptShrinker._count_tokens
_count_tokens(messages) == CountLoop(messages) + 2

\* compress with no branch for the system role
compress_every_role(messages, original_token_count) ==
    LET compressed ==
            [i \in 1..Len(messages) |->
                [messages[i] EXCEPT !.content = _lightweight_compress(@)]]
        after == _count_tokens(compressed)
    IN  [messages |-> compressed, tokens_after |-> after,
         tokens_saved |-> Max(original_token_count - after, 0)]

\* PromptShrinker.compress: [messages, tokens_after, tokens_saved]
compress(messages, original_token_count) ==
    LET compressed ==
            [i \in 1..Len(messages) |->
                IF messages[i].role = "system" THEN messages[i]
                ELSE [messages[i] EXCEPT !.content = _lightweight_compress(@)]]
        after == _count_tokens(compressed)
    IN  [messages |-> compressed, tokens_after |-> after,
         tokens_saved |-> Max(original_token_count - after, 0)]

\* mcp_contracts.py: MCPPolicy and its defaults
DEFAULT_WHITELIST == <<"local", "groq", "openai", "mistral", "openrouter">>
DEFAULT_MAX_TOKENS == 4096
MCPPolicy_default ==
    [mode |-> "BALANCED", allow_cloud |-> TRUE, max_tokens |-> DEFAULT_MAX_TOKENS,
     require_pii_masking |-> TRUE, compression_enabled |-> TRUE,
     whitelisted_providers |-> DEFAULT_WHITELIST]

\* MCPPolicy.allows_provider
allows_provider(policy, provider) ==
    lower(provider) \in {lower(p) : p \in Range(policy.whitelisted_providers)}

\* policy_engine.py
should_compress(policy) == policy.compression_enabled

\* PolicyEngine.enforce_token_limit: [allowed, reason]
enforce_token_limit(policy, token_count) ==
    IF token_count > policy.max_tokens
    THEN [allowed |-> FALSE, reason |-> <<"Token", "count", "exceeds", "policy", "limit">>]
    ELSE [allowed |-> TRUE, reason |-> <<>>]

\* self._cloud_models.get(name, default)
cloud_models_get(name, default) ==
    CASE name = "OPENAI" -> OPENAI_MODEL
      [] name = "GROQ" -> GROQ_MODEL
      [] OTHER -> default

_select_cloud_provider(policy, preferred) ==
    IF allows_provider(policy, preferred) THEN upper(preferred)
    ELSE IF allows_provider(policy, "GROQ") THEN "GROQ"
    ELSE IF allows_provider(policy, "OPENAI") THEN "OPENAI"
    ELSE upper(preferred)

\* decide_route without its STRICT branch
decide_route_without_strict(policy, token_count, preferred_cloud) ==
    LET cloud_model == cloud_models_get(upper(preferred_cloud), GROQ_MODEL)
        cloud_allowed == policy.allow_cloud
                         /\ \E p \in {"groq", "openai"} : allows_provider(policy, p)
        cloud == [route |-> "CLOUD",
                  model |-> cloud_models_get(_select_cloud_provider(policy, preferred_cloud),
                                             cloud_model)]
        local == [route |-> "LOCAL", model |-> LOCAL_MODEL]
    IN  IF policy.mode = "BALANCED"
        THEN (IF token_count < TOKEN_THRESHOLD \/ ~cloud_allowed THEN local ELSE cloud)
        ELSE (IF cloud_allowed THEN cloud ELSE local)

\* decide_route that counts a prompt of exactly the threshold as lightweight
decide_route_threshold_inclusive(policy, token_count, preferred_cloud) ==
    LET cloud_model == cloud_models_get(upper(preferred_cloud), GROQ_MODEL)
        cloud_allowed == policy.allow_cloud
                         /\ \E p \in {"groq", "openai"} : allows_provider(policy, p)
        cloud == [route |-> "CLOUD",
                  model |-> cloud_models_get(_select_cloud_provider(policy, preferred_cloud),
                                             cloud_model)]
        local == [route |-> "LOCAL", model |-> LOCAL_MODEL]
    IN  IF policy.mode = "STRICT" THEN local
        ELSE IF policy.mode = "BALANCED"
        THEN (IF token_count <= TOKEN_THRESHOLD \/ ~cloud_allowed THEN local ELSE cloud)
        ELSE (IF cloud_allowed THEN cloud ELSE local)

\* PolicyEngine.decide_route(request, token_count, preferred_cloud), given
\* request.policy
decide_route(policy, token_count, preferred_cloud) ==
    LET cloud_model == cloud_models_get(upper(preferred_cloud), GROQ_MODEL)
        cloud_allowed == policy.allow_cloud
                         /\ \E p \in {"groq", "openai"} : allows_provider(policy, p)
        cloud == [route |-> "CLOUD",
                  model |-> cloud_models_get(_select_cloud_provider(policy, preferred_cloud),
                                             cloud_model)]
        local == [route |-> "LOCAL", model |-> LOCAL_MODEL]
    IN  IF policy.mode = "STRICT" THEN local
        ELSE IF policy.mode = "BALANCED"
        THEN (IF token_count < TOKEN_THRESHOLD \/ ~cloud_allowed THEN local ELSE cloud)
        ELSE (IF cloud_allowed THEN cloud ELSE local)

\* DataHavenClient.fetch_policy: the policy of a well-formed 200 answer, the
\* default policy on any other answer and when the service cannot be reached
fetch_policy(up, answer) ==
    IF up /\ answer.ok THEN answer.policy ELSE MCPPolicy_default

\* DataHavenClient.log_inference: the log entry and whether it was accepted
log_inference(up, request, response_route, provider, model, token_count, privacy_level, cost_estimate) ==
    [ok |-> up,
     entry |-> [request_id |-> request.request_id, route |-> response_route,
                provider |-> provider, model |-> model, token_count |-> token_count,
                privacy_level |-> privacy_level, cost_estimate |-> cost_estimate,
                policy_mode |-> request.policy.mode]]

\* post_processor.py; the cost is in millionths of a dollar
\* (round(., 6) of the float sum)
estimate_cost_without_local(compressed, usage_tokens, route) ==
    (compressed * COST_PER_1K_INPUT + usage_tokens * COST_PER_1K_OUTPUT + 5) \div 10

estimate_cost(compressed, usage_tokens, route) ==
    IF route = "LOCAL" THEN 0
    ELSE (compressed * COST_PER_1K_INPUT + usage_tokens * COST_PER_1K_OUTPUT + 5) \div 10

determine_privacy_level_by_route(route, redaction_count) ==
    IF route = "LOCAL" THEN "HIGH" ELSE "CLOUD_HEAVY"

determine_privacy_level(route, redaction_count) ==
    IF route = "LOCAL" THEN "HIGH"
    ELSE IF redaction_count > 0 THEN "BALANCED"
    ELSE "CLOUD_HEAVY"

\* round(tokens_saved / tokens_before if tokens_before else 0, 3), in thousandths
compression_ratio(tokens_saved, tokens_before) ==
    IF tokens_before = 0 THEN 0
    ELSE (2 * 1000 * tokens_saved + tokens_before) \div (2 * tokens_before)

\* providers.py: ProviderRegistry._fallback_order and get_fallback, with the
\* names of the available providers in place of provider.is_available()
_fallback_order == <<"local", "groq", "mistral", "openrouter", "openai">>

\* get_fallback that walks the whole order and skips only the current name
get_fallback_from_start(current, policy_whitelist, available) ==
    LET whitelist == IF policy_whitelist = <<>> THEN _fallback_order ELSE policy_whitelist
        next == {i \in 1..Len(_fallback_order) :
                    /\ lower(_fallback_order[i]) # lower(current)
                    /\ \E w \in 1..Len(whitelist) :
                           lower(whitelist[w]) = lower(_fallback_order[i])
                    /\ _fallback_order[i] \in available}
    IN  IF next = {} THEN None
        ELSE Some(_fallback_order[CHOOSE i \in next : \A j \in next : i <= j])

get_fallback(current, policy_whitelist, available) ==
    LET whitelist == IF policy_whitelist = <<>> THEN _fallback_order ELSE policy_whitelist
        hits == {i \in 1..Len(_fallback_order) : lower(_fallback_order[i]) = lower(current)}
        current_idx == IF hits = {} THEN 0 ELSE CHOOSE i \in hits : \A j \in hits : i <= j
        next == {i \in (current_idx + 1)..Len(_fallback_order) :
                    /\ \E w \in 1..Len(whitelist) :
                           lower(whitelist[w]) = lower(_fallback_order[i])
                    /\ _fallback_order[i] \in available}
    IN  IF next = {} THEN None
        ELSE Some(_fallback_order[CHOOSE i \in next : \A j \in next : i <= j])

\* what the backend of a provider does with one request: it answers, cannot
\* be reached, answers with an HTTP error status, answers with a body that
\* has no message in it, or does not answer in time
InferOutcomes == {"ok", "connection_error", "http_error", "bad_body", "timeout"}

\* the "[Error] ..." strings of the providers
NoKeyError(name) == <<"[Error]", "No", "API_KEY", "configured", name>>
InferenceFailed(name, outcome) == <<"[Error]", name, "inference", "failed:", outcome>>
LocalUnavailable == <<"[Error]", "Local", "model", "unavailable">>

\* infer with no except clause around the call of the backend
infer_unguarded(name, configured, messages, outcome) ==
    IF name # "local" /\ ~configured
    THEN [raises |-> FALSE, text |-> NoKeyError(name), tokens |-> 0]
    ELSE IF outcome = "ok"
    THEN [raises |-> FALSE, text |-> <<"ans">>,
          tokens |-> _count_messages(messages) + EncodeLen(<<"ans">>)]
    ELSE [raises |-> TRUE, text |-> <<>>, tokens |-> 0]

\* infer of LocalProvider, OpenAIProvider, GroqProvider, MistralProvider and
\* OpenRouterProvider: [raises, text, tokens]. `configured` says that the
\* provider's API key is set
infer(name, configured, messages, outcome) ==
    IF name # "local" /\ ~configured
    THEN [raises |-> FALSE, text |-> NoKeyError(name), tokens |-> 0]
    ELSE IF outcome = "ok"
    THEN [raises |-> FALSE, text |-> <<"ans">>,
          tokens |-> _count_messages(messages) + EncodeLen(<<"ans">>)]
    ELSE IF name = "local" /\ outcome = "connection_error"
    THEN [raises |-> FALSE, text |-> LocalUnavailable, tokens |-> 0]
    ELSE [raises |-> FALSE, text |-> InferenceFailed(name, outcome), tokens |-> 0]

\* main.py
_GEMINI_ALIASED_PROVIDERS == {"MISTRAL", "OPENROUTER"}
_cloud_provider_for_inference(selected) ==
    IF upper(selected) \in _GEMINI_ALIASED_PROVIDERS THEN "OPENAI" ELSE selected

\* the model name _run_inference_with_failover passes to the Groq client
GROQ_DIRECT_MODEL == "llama-3.1-8b-instant"

\* f"[Error] Inference failed: {exc}"
ERROR_TEXT == <<"[Error]", "Inference", "failed:", "exc">>

\* what the Groq endpoint does with a request: it answers, repeats the user
\* message, writes harmful text, writes a long text before repeating the
\* user message, or the call raises
ModelOutcomes == {"answer", "echo", "harmful", "long_echo", "raise"}

\* resp.choices[0].message.content
ModelContent(outcome, oai_messages) ==
    LET user_text == oai_messages[Len(oai_messages)].content
    IN  CASE outcome = "answer" -> <<"ans">>
          [] outcome = "echo" -> user_text
          [] outcome = "harmful" -> <<"harm">>
          [] outcome = "long_echo" -> <<"long">> \o user_text

\* _run_inference_with_failover(mcp_req, decision, cloud_prov):
\* [call, content, tokens, route, model]
_run_inference_with_failover(request, decision, outcome) ==
    LET messages == IF request.compressed_messages # <<>>
                    THEN request.compressed_messages ELSE request.messages
        oai_messages == [i \in 1..Len(messages) |->
                            Msg(IF messages[i].role \in {"system", "assistant", "user"}
                                THEN messages[i].role ELSE "user",
                                messages[i].content)]
        call == [backend |-> "groq", model |-> GROQ_DIRECT_MODEL, messages |-> oai_messages]
    IN  IF outcome = "raise"
        THEN [call |-> call, content |-> ERROR_TEXT, tokens |-> 0,
              route |-> decision.route, model |-> decision.model]
        ELSE LET content == ModelContent(outcome, oai_messages)
             IN  [call |-> call, content |-> content,
                  tokens |-> _count_messages(oai_messages) + EncodeLen(content),
                  route |-> decision.route, model |-> decision.model]

\* text[:300] of main.py: "long" is a word of SNIPPET_LEN characters, every
\* other atom and every separator counts one character
SNIPPET_LEN == 300
CharLen(atom) == IF atom = "long" THEN SNIPPET_LEN ELSE 1
RECURSIVE Truncate(_, _)
Truncate(text, n) ==
    IF text = <<>> \/ CharLen(Head(text)) > n THEN <<>>
    ELSE <<Head(text)>> \o Truncate(Tail(text), n - CharLen(Head(text)) - 1)

\* f"Q: {masked_prompt}\nA: {content_to_store}"
MemoryText(masked_prompt, content) == <<"Q:">> \o masked_prompt \o <<"A:">> \o content

\* memory_layer.py: retrieve(query, top_k=3) and store(text, doc_id, metadata)
TOP_K == 3
retrieve(docs, query) ==
    LET last == LastN(docs, TOP_K) IN [i \in 1..Len(last) |-> last[i].text]
store(docs, text, doc_id, metadata) ==
    IF \E i \in 1..Len(docs) : docs[i].id = doc_id
    THEN [i \in 1..Len(docs) |->
            IF docs[i].id = doc_id
            THEN [id |-> doc_id, text |-> text, metadata |-> metadata] ELSE docs[i]]
    ELSE Append(docs, [id |-> doc_id, text |-> text, metadata |-> metadata])

-----------------------------------------------------------------------------
(* Initial values of each group of variables *)

EmptyStore == [k \in {} |-> <<>>]
NoUnmask == [id |-> 0, input |-> <<>>, output |-> <<>>, phase |-> "new"]
PiiIds == {1, 2}

PIIStart ==
    /\ redaction_store = EmptyStore
    /\ pii_phase = [id \in PiiIds |-> "new"]
    /\ pii_prompt = [id \in PiiIds |-> <<>>]
    /\ pii_masked = [id \in PiiIds |-> <<>>]
    /\ last_unmask = NoUnmask

RLStart ==
    /\ now = 0
    /\ timestamps = [k \in RlKeys |-> <<>>]
    /\ in_flight = [k \in RlKeys |-> 0]
    /\ admitted_at = [k \in RlKeys |-> <<>>]
    /\ rl_response = NoResponse

\* uuid.uuid4() of the request the model follows
RequestId == "r1"

NoRequest == [prompt |-> <<>>, mode |-> "", cloud_provider |-> ""]

MCPTokenStats_default ==
    [original |-> 0, after_compression |-> 0, inference_used |-> 0, saved |-> 0,
     compression_ratio |-> 0]

\* MCPRequest of mcp_contracts.py with its field defaults
MCPRequest(request_id, prompt, cloud_provider, metadata) ==
    [request_id |-> request_id, prompt |-> prompt, masked_prompt |-> None,
     policy |-> MCPPolicy_default, metadata |-> metadata,
     token_stats |-> MCPTokenStats_default, audit_trail |-> <<>>,
     pii_map |-> <<>>, context_snippets |-> <<>>, messages |-> <<>>,
     compressed_messages |-> <<>>, route |-> None, model |-> None,
     cloud_provider |-> cloud_provider]

\* the handler's locals before their assignment
NoFrame ==
    [input_ok |-> TRUE, input_block_reason |-> <<>>,
     masked_prompt |-> <<>>, redaction_count |-> 0, redaction_map |-> <<>>,
     context_snippets |-> <<>>,
     messages |-> <<>>, tokens_before |-> 0,
     compressed_msgs |-> <<>>, tokens_after |-> 0, tokens_saved |-> 0,
     cloud_prov |-> "", decision |-> [route |-> "", model |-> ""],
     raw_response |-> <<>>, usage_tokens |-> 0, actual_route |-> "", provider_used |-> "",
     output_ok |-> TRUE, final_response_candidate |-> <<>>, final_response |-> <<>>,
     output_filtered |-> FALSE,
     cost |-> 0, privacy_level |-> "",
     failed |-> {}]

NoGwResponse == [kind |-> "", status_code |-> 0]

\* what an earlier request left in the memory layer
PriorDocs ==
    <<[id |-> "r0", text |-> MemoryText(<<"w">>, <<"ans">>),
       metadata |-> [route |-> "LOCAL", mode |-> "BALANCED"]]>>

\* no call made and nothing returned
NoCall == [fn |-> ""]
NoResult == [returned |-> FALSE]
FnStart ==
    /\ fn_call = NoCall
    /\ fn_result = NoResult

GWStart ==
    /\ gw_pc = "idle"
    /\ endpoint = ""
    /\ req = NoRequest
    /\ mcp_req = MCPRequest("", <<>>, "", <<>>)
    /\ frame = NoFrame
    /\ datahaven_up = TRUE
    /\ memory_up = TRUE
    /\ memory_docs = PriorDocs
    /\ background_tasks = <<>>
    /\ backend_calls = <<>>
    /\ datahaven_log = <<>>
    /\ response = NoGwResponse

-----------------------------------------------------------------------------
(* SpecPII: mask / unmask / clear called directly *)

PiiAlphabet == {"w", "e1", "e2", "p1", "n1", "<EMAIL_1>"}

Texts == SeqsUpTo(PiiAlphabet, MaxLen)

\* the second id stands for any other request in flight
OtherPrompts == {<<"e2">>, <<"n1", "e1">>, <<"w">>}

PromptsOf(id) == IF id = 1 THEN Texts ELSE OtherPrompts

\* texts a caller may hand to unmask besides the masked prompt
UnmaskProbes == {<<"<EMAIL_1>", "w">>}

\* the variables SpecPII leaves alone
othersPII == <<varsRL, varsGW, varsFn>>

InitPII ==
    /\ nlp \in BOOLEAN
    /\ PIIStart
    /\ RLStart
    /\ GWStart
    /\ FnStart

\* the record of an unmask call is kept until its id is masked or cleared again
ForgetUnmask(id) == IF last_unmask.id = id THEN NoUnmask ELSE last_unmask

\* pii_guard.mask(text, request_id)
MaskOp(id, text) ==
    LET r == mask(text, nlp)
    IN  /\ redaction_store' = StorePut(redaction_store, id, r.map)
        /\ pii_phase' = [pii_phase EXCEPT ![id] = "masked"]
        /\ pii_prompt' = [pii_prompt EXCEPT ![id] = text]
        /\ pii_masked' = [pii_masked EXCEPT ![id] = r.masked]
        /\ last_unmask' = ForgetUnmask(id)
        /\ UNCHANGED <<nlp, othersPII>>

\* pii_guard.unmask(text, request_id)
UnmaskOp(id, text) ==
    /\ last_unmask' = [id |-> id, input |-> text,
                       output |-> unmask(text, id, redaction_store),
                       phase |-> pii_phase[id]]
    /\ UNCHANGED <<nlp, redaction_store, pii_phase, pii_prompt, pii_masked, othersPII>>

\* pii_guard.clear(request_id)
ClearOp(id) ==
    /\ redaction_store' = clear(redaction_store, id)
    /\ pii_phase' = [pii_phase EXCEPT ![id] = "cleared"]
    /\ pii_masked' = [pii_masked EXCEPT ![id] = <<>>]
    /\ last_unmask' = ForgetUnmask(id)
    /\ UNCHANGED <<nlp, pii_prompt, othersPII>>

\* a fresh request id is masked with any text; masking an id again (over its
\* stored map, or after clear) is explored with the short list of prompts
MaskStep ==
    \E id \in PiiIds :
        \E text \in (IF pii_phase[id] = "new" THEN PromptsOf(id) ELSE OtherPrompts) :
            MaskOp(id, text)
UnmaskStep ==
    \E id \in PiiIds :
        \E text \in (IF pii_phase[id] = "masked" THEN {pii_masked[id]} ELSE UnmaskProbes) :
            UnmaskOp(id, text)
ClearStep == \E id \in PiiIds : ClearOp(id)

\* the handler of a masked request raises between mask and post-processing
\* (prompt_builder.build is called outside any try block): the request ends
\* and neither unmask nor clear is called for it
RaiseOp(id) ==
    /\ pii_phase[id] = "masked"
    /\ pii_phase' = [pii_phase EXCEPT ![id] = "raised"]
    /\ UNCHANGED <<nlp, redaction_store, pii_prompt, pii_masked, last_unmask, othersPII>>
RaiseStep == \E id \in PiiIds : RaiseOp(id)

NextPII == MaskStep \/ UnmaskStep \/ ClearStep \/ RaiseStep

SpecPII == InitPII /\ [][NextPII]_vars

-----------------------------------------------------------------------------
(* SpecRL: concurrent requests through rate_limit_middleware *)

\* the variables SpecRL leaves alone
othersRL == <<varsPII, varsGW, varsFn>>

InitRL ==
    /\ nlp = FALSE
    /\ PIIStart
    /\ RLStart
    /\ GWStart
    /\ FnStart

\* time passes; admissions that left every window still to come are forgotten
Tick ==
    /\ now < MaxClock
    /\ now' = now + 1
    /\ admitted_at' = [k \in RlKeys |->
                         SelectSeq(admitted_at[k], LAMBDA t : t > now' - WindowTicks)]
    /\ UNCHANGED <<timestamps, in_flight, rl_response, othersRL>>

\* HTTP statuses of the downstream handler: 200 (answered, blocked prompts
\* included), 422 (request body rejected), 500 (the handler raised)
HandlerStatuses == {200, 422, 500}

\* what the /gateway handler hands back to the middleware: the status and, for
\* a body, its route ("BLOCKED" when the input guardrails stopped the prompt)
HandlerOutcomes ==
    {[status |-> 200, route |-> r] : r \in {"CLOUD", "BLOCKED"}}
        \cup {[status |-> st, route |-> ""] : st \in HandlerStatuses \ {200}}

\* rate_limit_middleware keeping a record of the requests to every path
MwBypass_records(path, ip, status) ==
    /\ path # "/gateway"
    /\ timestamps' = [timestamps EXCEPT
                         ![ip] = IF status = 200 THEN record(@, now) ELSE @]
    /\ rl_response' = [path |-> path, status |-> status, route |-> "",
                       retry_after |-> 0, recorded |-> (status = 200)]
    /\ UNCHANGED <<now, in_flight, admitted_at, othersRL>>

\* a request to another path: rate_limit_middleware returns call_next(request)
MwBypass(path, ip, status) ==
    /\ path # "/gateway"
    /\ rl_response' = [path |-> path, status |-> status, route |-> "",
                       retry_after |-> 0, recorded |-> FALSE]
    /\ UNCHANGED <<now, timestamps, in_flight, admitted_at, othersRL>>

\* a /gateway request arrives: rate_limit_middleware up to its await
\* (is_allowed, then the 429 or the call of the handler)
MwCheck(ip) ==
    LET r == is_allowed(timestamps[ip], now)
    IN  /\ r.allowed => SumOver(in_flight, RlKeys) < MaxInFlight
        /\ timestamps' = [timestamps EXCEPT ![ip] = r.ts_list]
        /\ IF r.allowed
           THEN /\ in_flight' = [in_flight EXCEPT ![ip] = @ + 1]
                /\ admitted_at' = [admitted_at EXCEPT
                                      ![ip] = LastN(Append(@, now), max_requests + 1)]
                /\ UNCHANGED rl_response
           ELSE /\ rl_response' = [path |-> "/gateway", status |-> 429, route |-> "",
                                   retry_after |-> r.retry_after, recorded |-> FALSE]
                /\ UNCHANGED <<in_flight, admitted_at>>
        /\ UNCHANGED <<now, othersRL>>

\* the middleware resuming with a record for every status
MwResume_always_records(ip, status, route) ==
    /\ in_flight[ip] > 0
    /\ in_flight' = [in_flight EXCEPT ![ip] = @ - 1]
    /\ timestamps' = [timestamps EXCEPT ![ip] = record(@, now)]
    /\ rl_response' = [path |-> "/gateway", status |-> status, route |-> route,
                       retry_after |-> 0, recorded |-> TRUE]
    /\ UNCHANGED <<now, admitted_at, othersRL>>

\* the middleware resuming with a record for answered prompts only
MwResume_skips_blocked(ip, status, route) ==
    /\ in_flight[ip] > 0
    /\ in_flight' = [in_flight EXCEPT ![ip] = @ - 1]
    /\ timestamps' = [timestamps EXCEPT
                         ![ip] = IF status = 200 /\ route # "BLOCKED"
                                 THEN record(@, now) ELSE @]
    /\ rl_response' = [path |-> "/gateway", status |-> status, route |-> route,
                       retry_after |-> 0,
                       recorded |-> (status = 200 /\ route # "BLOCKED")]
    /\ UNCHANGED <<now, admitted_at, othersRL>>

\* call_next(request) returns or raises and the middleware resumes: record on
\* 200, whatever the route of the body; an exception leaves the middleware at
\* the await
MwResume(ip, status, route) ==
    /\ in_flight[ip] > 0
    /\ in_flight' = [in_flight EXCEPT ![ip] = @ - 1]
    /\ timestamps' = [timestamps EXCEPT
                         ![ip] = IF status = 200 THEN record(@, now) ELSE @]
    /\ rl_response' = [path |-> "/gateway", status |-> status, route |-> route,
                       retry_after |-> 0, recorded |-> (status = 200)]
    /\ UNCHANGED <<now, admitted_at, othersRL>>

MwBypassStep ==
    \E path \in RlPaths, ip \in RlKeys, status \in HandlerStatuses : MwBypass(path, ip, status)
MwCheckStep == \E ip \in RlKeys : MwCheck(ip)
MwResumeStep == \E ip \in RlKeys, o \in HandlerOutcomes : MwResume(ip, o.status, o.route)

NextRL == Tick \/ MwBypassStep \/ MwCheckStep \/ MwResumeStep

SpecRL == InitRL /\ [][NextRL]_vars

-----------------------------------------------------------------------------
(* Spec: one request through gateway() or mcp_gateway(), stage by stage *)

GwEndpoints == {"/gateway", "/mcp/gateway"}
UserModes == {"STRICT", "BALANCED", "PERFORMANCE"}
CloudProviders == {"GROQ", "OPENAI"}

\* prompts: a plain word, a stop word before an e-mail address, the same
\* address twice, an injection attempt, a toxic phrase, a special token of the
\* tokenizer, a long passage with a name, a word typed after a space
GwPrompts ==
    {<<"w">>, <<"the", "e1">>, <<"e1", "e1">>, <<"inj", "e1">>, <<"tox">>,
     <<"sp", "e1">>, <<"big", "n1">>, <<" ", "rare">>}

Requests == [prompt : GwPrompts, mode : UserModes, cloud_provider : CloudProviders]

PolicyWhitelists == {DEFAULT_WHITELIST, <<"local">>, <<"OPENAI">>}

\* policies a DataHaven answer can carry; one of them has a token limit of
\* half the routing threshold
Policies ==
    [mode : {"STRICT", "BALANCED", "PERFORMANCE"}, allow_cloud : BOOLEAN,
     max_tokens : {DEFAULT_MAX_TOKENS}, require_pii_masking : {TRUE},
     compression_enabled : BOOLEAN, whitelisted_providers : PolicyWhitelists]
        \cup {[MCPPolicy_default EXCEPT !.max_tokens = TOKEN_THRESHOLD \div 2]}

\* answers of GET /policy/{user_id}: a policy, or anything else
PolicyAnswers ==
    {[ok |-> TRUE, policy |-> p] : p \in Policies}
        \cup {[ok |-> FALSE, policy |-> MCPPolicy_default]}

\* the variables of the other specifications that the handler never touches
othersGW == <<nlp, pii_phase, pii_prompt, pii_masked, last_unmask, varsRL, varsFn>>

\* _create_mcp_request
_create_mcp_request(r, request_id) ==
    MCPRequest(request_id, r.prompt, r.cloud_provider,
               [client_mode |-> r.mode, client_cloud_provider |-> r.cloud_provider])

\* schemas.GuardrailInfo / mcp_contracts.MCPGuardrailResult
GuardrailInfo(input_blocked, input_reason, output_filtered, output_reason) ==
    [input_blocked |-> input_blocked, input_reason |-> input_reason,
     output_filtered |-> output_filtered, output_reason |-> output_reason]

\* schemas.GatewayResponse (latency left out)
GatewayResponse(request_id, text, route, model_used, token_stats, estimated_cost, redaction_count, privacy_level, guardrails) ==
    [kind |-> "GatewayResponse", status_code |-> 200, request_id |-> request_id,
     response |-> text, route |-> route, model_used |-> model_used,
     token_stats |-> token_stats, estimated_cost |-> estimated_cost,
     redaction_count |-> redaction_count, privacy_level |-> privacy_level,
     guardrails |-> guardrails, datahaven_proof |-> None]

\* mcp_contracts.MCPResponse (latency left out)
MCPResponse(request_id, text, route, provider, model_used, token_stats, privacy_level, cost_estimate, redaction_count, guardrails, audit_trail, policy_applied) ==
    [kind |-> "MCPResponse", status_code |-> 200, request_id |-> request_id,
     response |-> text, route |-> route, provider |-> provider,
     model_used |-> model_used, token_stats |-> token_stats,
     privacy_level |-> privacy_level, cost_estimate |-> cost_estimate,
     redaction_count |-> redaction_count, guardrails |-> guardrails,
     audit_trail |-> audit_trail, policy_applied |-> policy_applied]

\* MCPResponse.blocked
MCPResponse_blocked(request_id, reason, audit_trail) ==
    MCPResponse(request_id, reason, "BLOCKED", "", "", MCPTokenStats_default, "BLOCKED",
                0, 0, GuardrailInfo(TRUE, reason, FALSE, <<>>), audit_trail,
                MCPPolicy_default)

\* schemas.TokenStats
TokenStats(original, compressed, saved, ratio) ==
    [original |-> original, compressed |-> compressed, saved |-> saved,
     compression_ratio |-> ratio]

\* the answer to a request whose handler raised
ServerError == [kind |-> "Internal Server Error", status_code |-> 500]

IsGateway == endpoint = "/gateway"

\* the request arrives: request_id, _create_mcp_request
GwReceive(ep, r, dh, mem) ==
    /\ gw_pc = "idle"
    /\ endpoint' = ep
    /\ req' = r
    /\ datahaven_up' = dh
    /\ memory_up' = mem
    /\ mcp_req' = _create_mcp_request(r, RequestId)
    /\ gw_pc' = Stages.POLICY_FETCH
    /\ UNCHANGED <<frame, memory_docs, background_tasks, backend_calls, datahaven_log,
                   response, redaction_store, othersGW>>

\* [0] Policy Fetch
GwPolicyFetch(answer) ==
    /\ gw_pc = Stages.POLICY_FETCH
    /\ LET policy == fetch_policy(datahaven_up, answer)
           extra == IF IsGateway THEN [policy_mode |-> policy.mode] ELSE NoExtra
       IN  mcp_req' = [mcp_req EXCEPT
                          !.policy = policy,
                          !.audit_trail = emit_event(@, Stages.POLICY_FETCH, None, None,
                                                     None, extra)]
    /\ frame' = [frame EXCEPT
                    !.failed = IF datahaven_up /\ answer.ok THEN @
                               ELSE @ \cup {Stages.POLICY_FETCH}]
    /\ gw_pc' = Stages.INPUT_GUARDRAILS
    /\ UNCHANGED <<endpoint, req, datahaven_up, memory_up, memory_docs, background_tasks,
                   backend_calls, datahaven_log, response, redaction_store, othersGW>>

\* [1] Input Guardrails without the early return of a blocked prompt
GwInputGuardrails_no_return ==
    /\ gw_pc = Stages.INPUT_GUARDRAILS
    /\ LET r == input_guardrails_check(req.prompt)
           extra == IF IsGateway THEN [passed |-> r.passed] ELSE NoExtra
       IN  /\ frame' = [frame EXCEPT !.input_ok = r.passed,
                                     !.input_block_reason = r.reason]
           /\ mcp_req' = [mcp_req EXCEPT
                             !.audit_trail = emit_event(@, Stages.INPUT_GUARDRAILS, None,
                                                        None, None, extra)]
    /\ gw_pc' = Stages.PII_GUARD
    /\ UNCHANGED <<endpoint, req, datahaven_up, memory_up, memory_docs, background_tasks,
                   backend_calls, datahaven_log, response, redaction_store, othersGW>>

\* [1] Input Guardrails, and the response to a blocked prompt
GwInputGuardrails ==
    /\ gw_pc = Stages.INPUT_GUARDRAILS
    /\ LET r == input_guardrails_check(req.prompt)
           extra == IF IsGateway THEN [passed |-> r.passed] ELSE NoExtra
           trail == emit_event(mcp_req.audit_trail, Stages.INPUT_GUARDRAILS, None, None,
                               None, extra)
       IN  /\ frame' = [frame EXCEPT !.input_ok = r.passed,
                                     !.input_block_reason = r.reason]
           /\ IF r.passed
              THEN /\ mcp_req' = [mcp_req EXCEPT !.audit_trail = trail]
                   /\ gw_pc' = Stages.PII_GUARD
                   /\ UNCHANGED response
              ELSE IF IsGateway
              THEN /\ mcp_req' = [mcp_req EXCEPT
                                     !.audit_trail =
                                         emit_error(trail, Stages.INPUT_GUARDRAILS, r.reason)]
                   /\ response' = GatewayResponse(
                                      mcp_req.request_id, r.reason, "BLOCKED", "",
                                      TokenStats(0, 0, 0, 0), 0, 0, "BLOCKED",
                                      GuardrailInfo(TRUE, r.reason, FALSE, <<>>))
                   /\ gw_pc' = "done"
              ELSE /\ mcp_req' = [mcp_req EXCEPT !.audit_trail = trail]
                   /\ response' = MCPResponse_blocked(mcp_req.request_id, r.reason, trail)
                   /\ gw_pc' = "done"
    /\ UNCHANGED <<endpoint, req, datahaven_up, memory_up, memory_docs, background_tasks,
                   backend_calls, datahaven_log, redaction_store, othersGW>>

\* [2] PII Guard
GwPiiGuard ==
    /\ gw_pc = Stages.PII_GUARD
    /\ LET r == mask(req.prompt, nlp)
           extra == IF IsGateway THEN [redaction_count |-> RedactionCount(r.map)]
                    ELSE NoExtra
       IN  /\ redaction_store' = StorePut(redaction_store, mcp_req.request_id, r.map)
           /\ frame' = [frame EXCEPT !.masked_prompt = r.masked,
                                     !.redaction_count = RedactionCount(r.map),
                                     !.redaction_map = r.map]
           /\ mcp_req' = [mcp_req EXCEPT
                             !.masked_prompt = r.masked,
                             !.pii_map = IF IsGateway THEN r.map ELSE @,
                             !.audit_trail = emit_event(@, Stages.PII_GUARD, None, None,
                                                        None, extra)]
    /\ gw_pc' = Stages.MEMORY_RETRIEVAL
    /\ UNCHANGED <<endpoint, req, datahaven_up, memory_up, memory_docs, background_tasks,
                   backend_calls, datahaven_log, response, othersGW>>

\* [3] Memory Layer: a failing retrieve leaves no context
GwMemoryRetrieval ==
    /\ gw_pc = Stages.MEMORY_RETRIEVAL
    /\ LET context_snippets == IF memory_up THEN retrieve(memory_docs, frame.masked_prompt)
                               ELSE <<>>
           extra == IF IsGateway THEN [context_count |-> Len(context_snippets)]
                    ELSE NoExtra
       IN  /\ frame' = [frame EXCEPT
                           !.context_snippets = context_snippets,
                           !.failed = IF memory_up THEN @
                                      ELSE @ \cup {Stages.MEMORY_RETRIEVAL}]
           /\ mcp_req' = [mcp_req EXCEPT
                             !.context_snippets = IF IsGateway THEN context_snippets ELSE @,
                             !.audit_trail = emit_event(@, Stages.MEMORY_RETRIEVAL, None,
                                                        None, None, extra)]
    /\ gw_pc' = Stages.PROMPT_BUILD
    /\ UNCHANGED <<endpoint, req, datahaven_up, memory_up, memory_docs, background_tasks,
                   backend_calls, datahaven_log, response, redaction_store, othersGW>>

\* [4] Prompt Builder: an exception of build leaves the handler
GwPromptBuild ==
    /\ gw_pc = Stages.PROMPT_BUILD
    /\ LET r == build(frame.masked_prompt, frame.context_snippets)
       IN  IF r.raises
           THEN /\ gw_pc' = "failed"
                /\ response' = ServerError
                /\ UNCHANGED <<frame, mcp_req>>
           ELSE /\ frame' = [frame EXCEPT !.messages = r.messages,
                                          !.tokens_before = r.token_count]
                /\ mcp_req' = [mcp_req EXCEPT
                                  !.messages = r.messages,
                                  !.token_stats.original =
                                      IF IsGateway THEN r.token_count ELSE @,
                                  !.audit_trail =
                                      emit_event(@, Stages.PROMPT_BUILD, None, None,
                                                 IF IsGateway THEN Some(r.token_count)
                                                 ELSE None,
                                                 NoExtra)]
                /\ gw_pc' = Stages.PROMPT_COMPRESS
                /\ UNCHANGED response
    /\ UNCHANGED <<endpoint, req, datahaven_up, memory_up, memory_docs, background_tasks,
                   backend_calls, datahaven_log, redaction_store, othersGW>>

\* [5] Prompt Shrinker: compress when the policy says so; a failing compress
\* leaves the messages as built
GwPromptCompress(compress_raises) ==
    /\ gw_pc = Stages.PROMPT_COMPRESS
    /\ compress_raises => should_compress(mcp_req.policy)
    /\ LET c == compress(frame.messages, frame.tokens_before)
           r == IF should_compress(mcp_req.policy) /\ ~compress_raises THEN c
                ELSE [messages |-> frame.messages, tokens_after |-> frame.tokens_before,
                      tokens_saved |-> 0]
       IN  /\ frame' = [frame EXCEPT
                           !.compressed_msgs = r.messages,
                           !.tokens_after = r.tokens_after,
                           !.tokens_saved = r.tokens_saved,
                           !.failed = IF compress_raises
                                      THEN @ \cup {Stages.PROMPT_COMPRESS} ELSE @]
           /\ mcp_req' = [mcp_req EXCEPT
                             !.compressed_messages = r.messages,
                             !.token_stats =
                                 IF IsGateway
                                 THEN [@ EXCEPT
                                          !.after_compression = r.tokens_after,
                                          !.saved = r.tokens_saved,
                                          !.compression_ratio =
                                              compression_ratio(r.tokens_saved,
                                                                frame.tokens_before)]
                                 ELSE @,
                             !.audit_trail =
                                 IF IsGateway
                                 THEN emit_event(@, Stages.PROMPT_COMPRESS, None, None,
                                                 Some(r.tokens_after),
                                                 [tokens_saved |-> r.tokens_saved])
                                 ELSE emit_event(@, Stages.PROMPT_COMPRESS, None, None,
                                                 None, NoExtra)]
    /\ gw_pc' = Stages.ROUTING
    /\ UNCHANGED <<endpoint, req, datahaven_up, memory_up, memory_docs, background_tasks,
                   backend_calls, datahaven_log, response, redaction_store, othersGW>>

\* [6] Routing Engine
GwRouting ==
    /\ gw_pc = Stages.ROUTING
    /\ LET cloud_prov_selected == req.cloud_provider
           cloud_prov == _cloud_provider_for_inference(cloud_prov_selected)
           decision == decide_route(mcp_req.policy, frame.tokens_after, cloud_prov)
       IN  /\ frame' = [frame EXCEPT !.cloud_prov = cloud_prov, !.decision = decision]
           /\ mcp_req' = [mcp_req EXCEPT
                             !.route = IF IsGateway THEN Some(decision.route) ELSE @,
                             !.model = IF IsGateway THEN Some(decision.model) ELSE @,
                             !.audit_trail =
                                 IF IsGateway
                                 THEN emit_event(@, Stages.ROUTING, Some(decision.route),
                                                 Some(IF decision.route = "CLOUD"
                                                      THEN cloud_prov_selected
                                                      ELSE "local"),
                                                 None, NoExtra)
                                 ELSE emit_event(@, Stages.ROUTING, Some(decision.route),
                                                 None, None, NoExtra)]
    /\ gw_pc' = Stages.INFERENCE
    /\ UNCHANGED <<endpoint, req, datahaven_up, memory_up, memory_docs, background_tasks,
                   backend_calls, datahaven_log, response, redaction_store, othersGW>>

\* [7] Inference
GwInference(outcome) ==
    /\ gw_pc = Stages.INFERENCE
    /\ LET r == _run_inference_with_failover(mcp_req, frame.decision, outcome)
       IN  /\ backend_calls' = Append(backend_calls, r.call)
           /\ frame' = [frame EXCEPT
                           !.raw_response = r.content,
                           !.usage_tokens = r.tokens,
                           !.actual_route = r.route,
                           !.provider_used = r.model,
                           !.failed = IF outcome = "raise"
                                      THEN @ \cup {Stages.INFERENCE} ELSE @]
           /\ mcp_req' = [mcp_req EXCEPT
                             !.token_stats.inference_used =
                                 IF IsGateway THEN r.tokens ELSE @,
                             !.audit_trail =
                                 IF IsGateway
                                 THEN emit_event(@, Stages.INFERENCE, Some(r.route),
                                                 Some(r.model), Some(r.tokens), NoExtra)
                                 ELSE emit_event(@, Stages.INFERENCE, None, Some(r.model),
                                                 None, NoExtra)]
    /\ gw_pc' = Stages.OUTPUT_GUARDRAILS
    /\ UNCHANGED <<endpoint, req, datahaven_up, memory_up, memory_docs, background_tasks,
                   datahaven_log, response, redaction_store, othersGW>>

\* [8] Output Guardrails
GwOutputGuardrails ==
    /\ gw_pc = Stages.OUTPUT_GUARDRAILS
    /\ LET r == output_guardrails_check(frame.raw_response)
           extra == IF IsGateway THEN [passed |-> r.passed] ELSE NoExtra
       IN  /\ frame' = [frame EXCEPT
                           !.output_ok = r.passed,
                           !.final_response_candidate = r.text,
                           !.final_response = r.text,
                           !.output_filtered = ~r.passed]
           /\ mcp_req' = [mcp_req EXCEPT
                             !.audit_trail = emit_event(@, Stages.OUTPUT_GUARDRAILS, None,
                                                        None, None, extra)]
    /\ gw_pc' = Stages.POST_PROCESS
    /\ UNCHANGED <<endpoint, req, datahaven_up, memory_up, memory_docs, background_tasks,
                   backend_calls, datahaven_log, response, redaction_store, othersGW>>

\* post-processing that reinserts the PII into the raw model output
GwPostProcess_unmask_raw ==
    /\ gw_pc = Stages.POST_PROCESS
    /\ LET final_response == unmask(frame.raw_response, mcp_req.request_id,
                                    redaction_store)
           cost == estimate_cost(frame.tokens_after, frame.usage_tokens,
                                 frame.actual_route)
           privacy_level == determine_privacy_level(frame.actual_route,
                                                    frame.redaction_count)
           extra == IF IsGateway
                    THEN [cost_estimate |-> cost, privacy_level |-> privacy_level]
                    ELSE NoExtra
       IN  /\ redaction_store' = clear(redaction_store, mcp_req.request_id)
           /\ frame' = [frame EXCEPT !.final_response = final_response,
                                     !.cost = cost,
                                     !.privacy_level = privacy_level]
           /\ mcp_req' = [mcp_req EXCEPT
                             !.audit_trail = emit_event(@, Stages.POST_PROCESS, None, None,
                                                        None, extra)]
    /\ gw_pc' = "respond"
    /\ UNCHANGED <<endpoint, req, datahaven_up, memory_up, memory_docs, background_tasks,
                   backend_calls, datahaven_log, response, othersGW>>

\* [9] Post-processing: unmask, clear, cost, privacy level
GwPostProcess ==
    /\ gw_pc = Stages.POST_PROCESS
    /\ LET final_response == unmask(frame.final_response, mcp_req.request_id,
                                    redaction_store)
           cost == estimate_cost(frame.tokens_after, frame.usage_tokens,
                                 frame.actual_route)
           privacy_level == determine_privacy_level(frame.actual_route,
                                                    frame.redaction_count)
           extra == IF IsGateway
                    THEN [cost_estimate |-> cost, privacy_level |-> privacy_level]
                    ELSE NoExtra
       IN  /\ redaction_store' = clear(redaction_store, mcp_req.request_id)
           /\ frame' = [frame EXCEPT !.final_response = final_response,
                                     !.cost = cost,
                                     !.privacy_level = privacy_level]
           /\ mcp_req' = [mcp_req EXCEPT
                             !.audit_trail = emit_event(@, Stages.POST_PROCESS, None, None,
                                                        None, extra)]
    /\ gw_pc' = "respond"
    /\ UNCHANGED <<endpoint, req, datahaven_up, memory_up, memory_docs, background_tasks,
                   backend_calls, datahaven_log, response, othersGW>>

\* the closure handed to background_tasks.add_task for the memory write
StoreMemoryTask(name, content) ==
    [task |-> name, text |-> MemoryText(frame.masked_prompt, content),
     doc_id |-> mcp_req.request_id,
     metadata |-> [route |-> frame.actual_route, mode |-> req.mode]]

\* the arguments both handlers give to datahaven_client.log_inference
LogInference ==
    log_inference(datahaven_up, mcp_req, frame.actual_route, frame.provider_used,
                  frame.decision.model, frame.usage_tokens, frame.privacy_level,
                  frame.cost)

\* the end of gateway(): the memory write is scheduled, the DataHaven log is
\* written synchronously (its bool result never yields a proof), the
\* GatewayResponse is returned
GwRespondGateway ==
    /\ gw_pc = "respond"
    /\ IsGateway
    /\ LET content_to_store == IF frame.output_filtered
                               THEN Truncate(frame.final_response, SNIPPET_LEN)
                               ELSE Truncate(frame.raw_response, SNIPPET_LEN)
           dh_result == LogInference
       IN  /\ background_tasks' = Append(background_tasks,
                                         StoreMemoryTask("_store_memory", content_to_store))
           /\ datahaven_log' = IF dh_result.ok THEN Append(datahaven_log, dh_result.entry)
                               ELSE datahaven_log
           /\ response' = GatewayResponse(
                              mcp_req.request_id, frame.final_response, frame.actual_route,
                              frame.decision.model,
                              TokenStats(frame.tokens_before, frame.tokens_after,
                                         frame.tokens_saved,
                                         compression_ratio(frame.tokens_saved,
                                                           frame.tokens_before)),
                              frame.cost, frame.redaction_count, frame.privacy_level,
                              GuardrailInfo(FALSE, <<>>, frame.output_filtered,
                                            IF frame.output_filtered
                                            THEN frame.final_response_candidate ELSE <<>>))
    /\ gw_pc' = "done"
    /\ UNCHANGED <<endpoint, req, mcp_req, frame, datahaven_up, memory_up, memory_docs,
                   backend_calls, redaction_store, othersGW>>

\* the end of mcp_gateway(): both background tasks are scheduled and the
\* MCPResponse is returned
GwRespondMcp ==
    /\ gw_pc = "respond"
    /\ ~IsGateway
    /\ LET _mcp_response_snippet == Truncate(frame.final_response, SNIPPET_LEN)
       IN  background_tasks' =
               background_tasks
                   \o <<StoreMemoryTask("_mcp_store_memory", _mcp_response_snippet),
                        [task |-> "_mcp_log_datahaven"]>>
    /\ response' = MCPResponse(
                       mcp_req.request_id, frame.final_response, frame.actual_route,
                       frame.provider_used, frame.decision.model,
                       [MCPTokenStats_default EXCEPT
                           !.original = frame.tokens_before,
                           !.after_compression = frame.tokens_after,
                           !.inference_used = frame.usage_tokens,
                           !.saved = frame.tokens_saved,
                           !.compression_ratio = compression_ratio(frame.tokens_saved,
                                                                   frame.tokens_before)],
                       frame.privacy_level, frame.cost, frame.redaction_count,
                       GuardrailInfo(FALSE, <<>>, frame.output_filtered,
                                     IF frame.output_filtered
                                     THEN frame.final_response_candidate ELSE <<>>),
                       mcp_req.audit_trail, mcp_req.policy)
    /\ gw_pc' = "done"
    /\ UNCHANGED <<endpoint, req, mcp_req, frame, datahaven_up, memory_up, memory_docs,
                   backend_calls, datahaven_log, redaction_store, othersGW>>

\* after the response is sent the background tasks run in order; each
\* swallows the exception of a failing write
GwBackground ==
    /\ gw_pc = "done"
    /\ background_tasks # <<>>
    /\ LET t == Head(background_tasks)
       IN  IF t.task = "_mcp_log_datahaven"
           THEN /\ datahaven_log' = IF LogInference.ok
                                    THEN Append(datahaven_log, LogInference.entry)
                                    ELSE datahaven_log
                /\ UNCHANGED memory_docs
           ELSE /\ memory_docs' = IF memory_up
                                  THEN store(memory_docs, t.text, t.doc_id, t.metadata)
                                  ELSE memory_docs
                /\ UNCHANGED datahaven_log
    /\ background_tasks' = Tail(background_tasks)
    /\ UNCHANGED <<gw_pc, endpoint, req, mcp_req, frame, datahaven_up, memory_up,
                   backend_calls, response, redaction_store, othersGW>>

GwReceiveStep ==
    \E ep \in GwEndpoints, r \in Requests, dh \in BOOLEAN, mem \in BOOLEAN :
        GwReceive(ep, r, dh, mem)
GwPolicyFetchStep == \E answer \in PolicyAnswers : GwPolicyFetch(answer)
GwPromptCompressStep == \E compress_raises \in BOOLEAN : GwPromptCompress(compress_raises)
GwInferenceStep == \E outcome \in ModelOutcomes : GwInference(outcome)

Init ==
    /\ nlp = TRUE
    /\ PIIStart
    /\ RLStart
    /\ GWStart
    /\ FnStart

Next ==
    \/ GwReceiveStep
    \/ GwPolicyFetchStep
    \/ GwInputGuardrails
    \/ GwPiiGuard
    \/ GwMemoryRetrieval
    \/ GwPromptBuild
    \/ GwPromptCompressStep
    \/ GwRouting
    \/ GwInferenceStep
    \/ GwOutputGuardrails
    \/ GwPostProcess
    \/ GwRespondGateway
    \/ GwRespondMcp
    \/ GwBackground

Spec == Init /\ [][Next]_vars

-----------------------------------------------------------------------------
(* SpecFn: one call of compress, _lightweight_compress, decide_route,      *)
(* enforce_token_limit, get_fallback, infer or                             *)
(* _run_inference_with_failover, or calls of is_available in a row         *)

othersFn == <<varsPII, varsRL, varsGW>>

\* message lists as build returns them, and one with an assistant turn
CompressPrompts ==
    {<<"w">>, <<"the", "w">>, <<"the", "a">>, <<" ", "rare">>,
     <<"w", "the", "w", "w", "a", "w">>}
CompressContexts == {<<>>, <<PriorDocs[1].text>>, <<PriorDocs[1].text, <<"the", "w">>>>}
CompressInputs ==
    {build(p, c).messages : p \in CompressPrompts, c \in CompressContexts}
        \cup {<<Msg("system", SYSTEM_PROMPT), Msg("user", <<"the", "w">>),
                Msg("assistant", <<"a", "w", "w">>), Msg("user", <<"w", "the">>)>>}

RouteWhitelists ==
    PolicyWhitelists \cup {<<"groq">>, <<"local", "openai">>, <<"mistral">>, <<>>}
RoutePolicies ==
    [mode : UserModes, allow_cloud : BOOLEAN, max_tokens : {DEFAULT_MAX_TOKENS},
     require_pii_masking : {TRUE}, compression_enabled : {TRUE},
     whitelisted_providers : RouteWhitelists]
\* token counts around the threshold
RouteTokenCounts == {0, TOKEN_THRESHOLD - 1, TOKEN_THRESHOLD, TOKEN_THRESHOLD + 1}

\* token counts around the limit of the default policy
LimitTokenCounts == {0, DEFAULT_MAX_TOKENS - 1, DEFAULT_MAX_TOKENS, DEFAULT_MAX_TOKENS + 1}

\* names a caller can pass as the failing provider: the registered ones, one in
\* upper case, one the order does not know
FallbackCurrents == Range(_fallback_order) \cup {"GROQ", "gemini"}

\* requests as the handler has them before inference, compressed or not, and
\* the two decisions of the default policy
InferenceRequests ==
    {[MCPRequest(RequestId, p, "GROQ", <<>>) EXCEPT
          !.messages = build(p, <<>>).messages,
          !.compressed_messages =
              IF c THEN compress(build(p, <<>>).messages, build(p, <<>>).token_count).messages
              ELSE <<>>] :
        p \in CompressPrompts, c \in BOOLEAN}
InferenceDecisions ==
    {[route |-> "LOCAL", model |-> LOCAL_MODEL], [route |-> "CLOUD", model |-> GROQ_MODEL]}

\* what GET {base_url}/health does at one call of is_available: it answers
\* 200, answers another status, or raises (service down, timeout)
HealthOutcomes ==
    {[raised |-> FALSE, status_code |-> 200], [raised |-> FALSE, status_code |-> 503],
     [raised |-> TRUE, status_code |-> 0]}

\* DataHavenClient.is_available: the value returned and self._available after
\* the call; `available` is self._available before it, None until a first probe
is_available(available, health) ==
    IF available # None
    THEN [value |-> available[1], available |-> available]
    ELSE IF ~health.raised
         THEN [value |-> (health.status_code = 200),
               available |-> Some(health.status_code = 200)]
         ELSE [value |-> FALSE, available |-> Some(FALSE)]

\* message contents of up to MaxLen + 2 atoms: two words, two stop words and a
\* typed blank
CompressTexts == SeqsUpTo({"w", "v", "the", "a", " "}, MaxLen + 2)

FnCalls ==
    [fn : {"compress"}, messages : CompressInputs]
        \cup [fn : {"decide_route"}, policy : RoutePolicies,
              token_count : RouteTokenCounts, preferred_cloud : CloudProviders]
        \cup [fn : {"enforce_token_limit"}, policy : {MCPPolicy_default},
              token_count : LimitTokenCounts]
        \cup {[fn |-> "get_fallback", first |-> c, current |-> c, chain |-> <<>>,
               policy_whitelist |-> w, available |-> a] :
                 c \in FallbackCurrents, w \in RouteWhitelists,
                 a \in SUBSET Range(_fallback_order)}
        \cup [fn : {"infer"}, name : Range(_fallback_order), configured : BOOLEAN,
              outcome : InferOutcomes]
        \cup [fn : {"_run_inference_with_failover"}, request : InferenceRequests,
              decision : InferenceDecisions, outcome : ModelOutcomes]
        \cup [fn : {"_lightweight_compress"}, text : CompressTexts]
        \cup [fn : {"is_available"}, available : {None}, health : HealthOutcomes]

InitFn ==
    /\ nlp = FALSE
    /\ PIIStart
    /\ RLStart
    /\ GWStart
    /\ fn_call \in FnCalls
    /\ fn_result = NoResult

Returns(fn, value) ==
    /\ fn_call.fn = fn
    /\ ~fn_result.returned
    /\ fn_result' = [returned |-> TRUE, value |-> value]
    /\ UNCHANGED <<fn_call, othersFn>>

FnCompress ==
    /\ fn_call.fn = "compress"
    /\ Returns("compress", compress(fn_call.messages, _count_messages(fn_call.messages)))

FnDecideRoute ==
    /\ fn_call.fn = "decide_route"
    /\ Returns("decide_route",
               decide_route(fn_call.policy, fn_call.token_count, fn_call.preferred_cloud))

FnEnforceTokenLimit ==
    /\ fn_call.fn = "enforce_token_limit"
    /\ Returns("enforce_token_limit",
               enforce_token_limit(fn_call.policy, fn_call.token_count))

FnGetFallback ==
    /\ fn_call.fn = "get_fallback"
    /\ Returns("get_fallback",
               get_fallback(fn_call.current, fn_call.policy_whitelist, fn_call.available))

\* one call of datahaven_client.is_available(), from /health or from a stage
FnIsAvailable ==
    /\ fn_call.fn = "is_available"
    /\ ~fn_result.returned
    /\ LET r == is_available(fn_call.available, fn_call.health)
       IN  /\ fn_result' = [returned |-> TRUE, value |-> r.value]
           /\ fn_call' = [fn_call EXCEPT !.available = r.available]
    /\ UNCHANGED othersFn

\* the service goes down or comes back before the client is asked again
FnHealthChanges ==
    /\ fn_call.fn = "is_available"
    /\ fn_result.returned
    /\ \E h \in HealthOutcomes : fn_call' = [fn_call EXCEPT !.health = h]
    /\ fn_result' = NoResult
    /\ UNCHANGED othersFn

\* the provider get_fallback returned fails too and the caller asks again,
\* under the same whitelist and availability; `chain` lists the providers
\* returned so far
FnFailover ==
    /\ fn_call.fn = "get_fallback"
    /\ fn_result.returned
    /\ fn_result.value # None
    /\ Len(fn_call.chain) <= Len(_fallback_order)
    /\ fn_call' = [fn_call EXCEPT !.current = fn_result.value[1],
                                  !.chain = Append(@, fn_result.value[1])]
    /\ fn_result' = NoResult
    /\ UNCHANGED othersFn

FnInfer ==
    /\ fn_call.fn = "infer"
    /\ Returns("infer",
               infer(fn_call.name, fn_call.configured,
                     build(<<"w">>, <<>>).messages, fn_call.outcome))

FnRunInference ==
    /\ fn_call.fn = "_run_inference_with_failover"
    /\ Returns("_run_inference_with_failover",
               _run_inference_with_failover(fn_call.request, fn_call.decision,
                                            fn_call.outcome))

FnLightweightCompress ==
    /\ fn_call.fn = "_lightweight_compress"
    /\ Returns("_lightweight_compress", _lightweight_compress(fn_call.text))

NextFn ==
    \/ FnLightweightCompress
    \/ FnCompress
    \/ FnDecideRoute
    \/ FnEnforceTokenLimit
    \/ FnGetFallback
    \/ FnFailover
    \/ FnIsAvailable
    \/ FnHealthChanges
    \/ FnInfer
    \/ FnRunInference

SpecFn == InitFn /\ [][NextFn]_vars

-----------------------------------------------------------------------------
(* Claims settled under SpecPII *)

NoPlaceholderLiteral(text) == Range(text) \cap PlaceholderLiterals = {}

C8_UnmaskAfterClear ==
    /\ \A id \in PiiIds :
          pii_phase[id] = "cleared"
            => \A x \in Texts \cup UnmaskProbes : unmask(x, id, redaction_store) = x
    /\ last_unmask.phase = "cleared" => last_unmask.output = last_unmask.input

\* id 1 was masked with a non-empty map, cleared, and then unmask was handed
\* its own placeholder while another id still holds a map
C8_Witness ==
    /\ pii_phase[1] = "cleared"
    /\ pii_prompt[1] = <<"e1", "w">>
    /\ last_unmask = [id |-> 1, input |-> <<"<EMAIL_1>", "w">>,
                      output |-> <<"<EMAIL_1>", "w">>, phase |-> "cleared"]
    /\ pii_phase[2] = "masked"
    /\ StoreGet(redaction_store, 2) # <<>>

-----------------------------------------------------------------------------
(* Claims settled under SpecRL *)

\* number of admissions of a key in the window of length W that ends at the
\* i-th admission
AdmittedInWindow(key, i) ==
    Cardinality({j \in 1..i : admitted_at[key][j] > admitted_at[key][i] - WindowTicks})

\* C1: with max_requests = N and window W, for every key and every
\* interleaving of concurrent /gateway requests, no more than N requests of
\* that key are admitted within any time window of length W.
C1_AtMostNAdmitted ==
    \A key \in RlKeys :
        \A i \in 1..Len(admitted_at[key]) : AdmittedInWindow(key, i) <= max_requests

-----------------------------------------------------------------------------
(* Claims settled under Spec *)

\* the stage names of an audit trail, in order
StageNames(trail) == [i \in 1..Len(trail) |-> trail[i].stage]

\* the order in which gateway() and mcp_gateway() run the stages
PIPELINE_ORDER ==
    <<Stages.POLICY_FETCH, Stages.INPUT_GUARDRAILS, Stages.PII_GUARD,
      Stages.MEMORY_RETRIEVAL, Stages.PROMPT_BUILD, Stages.PROMPT_COMPRESS,
      Stages.ROUTING, Stages.INFERENCE, Stages.OUTPUT_GUARDRAILS, Stages.POST_PROCESS>>

IsPrefix(s, t) == Len(s) <= Len(t) /\ SubSeq(t, 1, Len(s)) = s

\* the routing stage of the request has run
Routed ==
    /\ frame.input_ok
    /\ gw_pc \in {Stages.INFERENCE, Stages.OUTPUT_GUARDRAILS, Stages.POST_PROCESS,
                  "respond", "done"}

\* pii_guard.mask has been called for the request
MaskCalled == mcp_req.masked_prompt # None

\* the handler has returned or raised
Finished == gw_pc \in {"done", "failed"}

\* C2: decide_route returns route LOCAL with the local model whenever the
\* fetched policy's mode is STRICT, for every token count, allow_cloud value,
\* whitelist, client-requested mode and preferred cloud provider.
C2_StrictRoutesLocal ==
    (Routed /\ mcp_req.policy.mode = "STRICT")
        => frame.decision = [route |-> "LOCAL", model |-> LOCAL_MODEL]

\* a PERFORMANCE request of at least TOKEN_THRESHOLD tokens under a STRICT
\* policy that allows cloud and whitelists only a cloud provider
C2_Witness ==
    /\ Routed
    /\ mcp_req.policy.mode = "STRICT"
    /\ mcp_req.policy.allow_cloud
    /\ mcp_req.policy.whitelisted_providers = <<"OPENAI">>
    /\ req.mode = "PERFORMANCE"
    /\ req.cloud_provider = "OPENAI"
    /\ frame.tokens_after >= TOKEN_THRESHOLD
    /\ frame.decision.route = "LOCAL"

\* C3: when the routing decision of a request is LOCAL, its messages are sent
\* only to the on-device local provider; no remote backend is called.
C3_LocalRouteStaysLocal ==
    (Routed /\ frame.decision.route = "LOCAL")
        => \A i \in 1..Len(backend_calls) : backend_calls[i].backend = "local"

\* C4: inference is never dispatched to a provider that is absent from the
\* request policy's whitelisted_providers.
C4_OnlyWhitelistedProviders ==
    \A i \in 1..Len(backend_calls) :
        allows_provider(mcp_req.policy, backend_calls[i].backend)

\* C5: for every request that reached stage 2, clear(request_id) has run by
\* the time the handler finishes, on every exit path, so the redaction store
\* holds no entry for a finished request.
C5_ClearOnEveryExit ==
    (Finished /\ MaskCalled) => mcp_req.request_id \notin DOMAIN redaction_store

\* the texts handed to memory.store for the request
StoreTexts ==
    {background_tasks[i].text :
        i \in {j \in 1..Len(background_tasks) :
                  background_tasks[j].task # "_mcp_log_datahaven"}}
    \cup {memory_docs[i].text :
            i \in {j \in 1..Len(memory_docs) : memory_docs[j].id = mcp_req.request_id}}

\* C6: the text handed to memory.store for a request, on both endpoints,
\* never contains an original PII value of the request's redaction map.
C6_NoPiiInMemoryStore ==
    \A text \in StoreTexts : Range(text) \cap MapValues(frame.redaction_map) = {}

\* C9: the audit trail of every response holds exactly 2 entries for a request
\* blocked by input guardrails and exactly 10 for a successful request, on
\* both /gateway and /mcp/gateway.
C9_AuditEntryCount ==
    gw_pc = "done" => Len(mcp_req.audit_trail) = (IF frame.input_ok THEN 10 ELSE 2)

\* C10: for every non-blocked request the audit entries appear in pipeline
\* order; the entry of a stage is appended only after the entry of the
\* preceding stage, and soft failures in policy fetch, memory retrieval,
\* compression or inference neither skip an entry nor change the order.
C10_AuditOrder ==
    (gw_pc # "idle" /\ frame.input_ok)
        => /\ IsPrefix(StageNames(mcp_req.audit_trail), PIPELINE_ORDER)
           /\ \A k \in 1..Len(PIPELINE_ORDER) :
                 gw_pc = PIPELINE_ORDER[k] => Len(mcp_req.audit_trail) = k - 1
           /\ gw_pc \in {"respond", "done"}
                 => StageNames(mcp_req.audit_trail) = PIPELINE_ORDER

\* a request answered after the policy fetch, the memory retrieval, the
\* compression and the inference call all failed
C10_Witness ==
    /\ gw_pc = "done"
    /\ frame.input_ok
    /\ frame.failed = {Stages.POLICY_FETCH, Stages.MEMORY_RETRIEVAL,
                       Stages.PROMPT_COMPRESS, Stages.INFERENCE}
    /\ StageNames(mcp_req.audit_trail) = PIPELINE_ORDER

\* the cost field of either response model
ResponseCost ==
    IF response.kind = "GatewayResponse" THEN response.estimated_cost
    ELSE response.cost_estimate

\* a prompt the input guardrails rejected has been answered
Blocked == gw_pc # "idle" /\ ~frame.input_ok

\* C11: when the input guardrails block a prompt the handler returns at once:
\* mask was not called (no redaction map under the request id), nothing was
\* retrieved from or written to memory, no provider was called, no background
\* task and no DataHaven log exist, and the response says route BLOCKED,
\* privacy level BLOCKED, all-zero token stats and cost 0.
C11_BlockedStopsPipeline ==
    Blocked =>
        /\ gw_pc = "done"
        /\ mcp_req.request_id \notin DOMAIN redaction_store
        /\ mcp_req.masked_prompt = None
        /\ Range(StageNames(mcp_req.audit_trail))
               \subseteq {Stages.POLICY_FETCH, Stages.INPUT_GUARDRAILS}
        /\ backend_calls = <<>>
        /\ background_tasks = <<>>
        /\ memory_docs = PriorDocs
        /\ datahaven_log = <<>>
        /\ response.status_code = 200
        /\ response.route = "BLOCKED"
        /\ response.privacy_level = "BLOCKED"
        /\ \A f \in DOMAIN response.token_stats : response.token_stats[f] = 0
        /\ ResponseCost = 0
        /\ response.redaction_count = 0
        /\ response.guardrails.input_blocked

\* a blocked prompt that carries an e-mail address, on either endpoint
C11_Witness ==
    /\ Blocked
    /\ gw_pc = "done"
    /\ req.prompt = <<"inj", "e1">>
    /\ endpoint = "/mcp/gateway"
    /\ response.route = "BLOCKED"

\* the inference stage of a request that passed the input guardrails is over
InferenceDone ==
    /\ gw_pc \in {Stages.OUTPUT_GUARDRAILS, Stages.POST_PROCESS, "respond", "done"}
    /\ frame.input_ok

\* the provider names create_provider_registry registers
RegisteredProviders == Range(_fallback_order)

\* C12: when the inference attempt failed and the fallback order names a
\* further whitelisted provider, that provider was called next, before the
\* handler went on to its response.
C12_FailoverTriesNext ==
    (InferenceDone /\ Stages.INFERENCE \in frame.failed) =>
        LET first == backend_calls[1].backend
            next == get_fallback(first, mcp_req.policy.whitelisted_providers,
                                 RegisteredProviders)
        IN  next # None =>
                /\ Len(backend_calls) >= 2
                /\ backend_calls[2].backend = next[1]

\* the audit entries of the inference stage
InferenceEntries ==
    SelectSeq(mcp_req.audit_trail, LAMBDA e : e.stage = Stages.INFERENCE)

\* C13: in a non-blocked response the provider of the response and of the
\* inference audit entry is the registry name of the provider that executed
\* the last inference call, and a CLOUD response was not produced by local.
C13_ProviderIsExecutor ==
    (gw_pc = "done" /\ frame.input_ok) =>
        LET executor == backend_calls[Len(backend_calls)].backend
        IN  /\ executor \in RegisteredProviders
            /\ \A i \in 1..Len(InferenceEntries) :
                   InferenceEntries[i].provider = Some(executor)
            /\ response.kind = "MCPResponse" => response.provider = executor
            /\ response.route = "CLOUD" => executor # "local"

-----------------------------------------------------------------------------
(* Further claims settled under SpecRL *)

\* C14: a bucket grows only by one timestamp at a time, the current time, in
\* the step in which one request of that key leaves the handler with status
\* 200; a 429, a request to another path and a handler that returns another
\* status or raises add nothing to any bucket.
C14_RecordOnlyAfter200 ==
    [][\A k \in RlKeys :
          /\ Len(timestamps'[k]) > Len(timestamps[k]) =>
                /\ timestamps'[k] = Append(timestamps[k], now)
                /\ in_flight'[k] = in_flight[k] - 1
                /\ rl_response'.path = "/gateway"
                /\ rl_response'.status = 200
          /\ Len(timestamps'[k]) <= Len(timestamps[k]) =>
                Range(timestamps'[k]) \subseteq Range(timestamps[k])]_vars

\* a handler failed after an earlier request of the key had been recorded:
\* the bucket still holds that one timestamp only
C14_Witness ==
    /\ rl_response.path = "/gateway"
    /\ rl_response.status = 500
    /\ ~rl_response.recorded
    /\ Len(timestamps["ip1"]) = 1
    /\ in_flight["ip1"] = 0

\* the timestamps of a key that are inside the window at the current time
InWindow(k) == Prune(timestamps[k], now - WindowTicks)

C16_RetryAfterWithinWindow ==
    rl_response.status = 429 =>
        /\ rl_response.retry_after >= 1
        /\ rl_response.retry_after <= window_seconds
        /\ ~rl_response.recorded

-----------------------------------------------------------------------------
(* Further claims settled under Spec *)

\* a response body was returned (HTTP 200), for a blocked prompt or not
Responded == response.status_code = 200

\* C17 as the specification states it: in every response the cost is 0
\* exactly when the route is LOCAL.
C17_CostZeroIffLocal ==
    Responded => (ResponseCost = 0 <=> response.route = "LOCAL")

\* C17, amended: in every response that is not blocked the route is LOCAL or
\* CLOUD and the cost is 0 exactly when the route is LOCAL; a blocked response
\* has route BLOCKED and cost 0.
C17_CostZeroIffLocalUnlessBlocked ==
    Responded =>
        IF response.guardrails.input_blocked
        THEN response.route = "BLOCKED" /\ ResponseCost = 0
        ELSE /\ response.route \in {"LOCAL", "CLOUD"}
             /\ ResponseCost = 0 <=> response.route = "LOCAL"

\* a CLOUD response with its cost, next to the blocked and LOCAL ones
C17_Witness ==
    /\ Responded
    /\ response.route = "CLOUD"
    /\ ResponseCost > 0
    /\ Stages.INFERENCE \notin frame.failed

\* C18: when inference ended in the "[Error] ..." string the response reports
\* 0 tokens used and cost 0, on the LOCAL and on the CLOUD route.
C18_ErrorCostsNothing ==
    (Responded /\ frame.input_ok /\ Stages.INFERENCE \in frame.failed) =>
        /\ frame.raw_response = ERROR_TEXT
        /\ frame.usage_tokens = 0
        /\ response.kind = "MCPResponse" => response.token_stats.inference_used = 0
        /\ ResponseCost = 0

\* C19: the privacy level of every response is BLOCKED for a blocked prompt
\* and otherwise follows from the response's route and redaction count alone:
\* HIGH on LOCAL, BALANCED on CLOUD with redactions, CLOUD_HEAVY on CLOUD
\* without.
C19_PrivacyLevelTable ==
    Responded =>
        /\ response.privacy_level \in {"HIGH", "BALANCED", "CLOUD_HEAVY", "BLOCKED"}
        /\ response.privacy_level =
               CASE response.guardrails.input_blocked -> "BLOCKED"
                 [] ~response.guardrails.input_blocked /\ response.route = "LOCAL" -> "HIGH"
                 [] ~response.guardrails.input_blocked /\ response.route = "CLOUD"
                        /\ response.redaction_count > 0 -> "BALANCED"
                 [] ~response.guardrails.input_blocked /\ response.route = "CLOUD"
                        /\ response.redaction_count = 0 -> "CLOUD_HEAVY"

\* a CLOUD response whose prompt had a redaction
C19_Witness ==
    /\ Responded
    /\ response.route = "CLOUD"
    /\ response.redaction_count > 0
    /\ response.privacy_level = "BALANCED"

\* the three token counts of a response, under the names of either model
ResponseTokens ==
    [original |-> response.token_stats.original,
     compressed |-> IF response.kind = "GatewayResponse"
                    THEN response.token_stats.compressed
                    ELSE response.token_stats.after_compression,
     saved |-> response.token_stats.saved]

\* C20: in a non-blocked response saved + compressed = original when the
\* policy enabled compression and compress returned, and saved = 0 with
\* compressed = original when compression was disabled or raised.
C20_TokenStatsAddUp ==
    (Responded /\ ~response.guardrails.input_blocked) =>
        IF should_compress(mcp_req.policy) /\ Stages.PROMPT_COMPRESS \notin frame.failed
        THEN ResponseTokens.saved + ResponseTokens.compressed = ResponseTokens.original
        ELSE /\ ResponseTokens.saved = 0
             /\ ResponseTokens.compressed = ResponseTokens.original

-----------------------------------------------------------------------------
(* Claims settled under SpecFn *)

Returned(fn) == fn_call.fn = fn /\ fn_result.returned

\* C21: compress returns a message list of the same length, in the same order
\* and with the same roles as its input; every system message is the input
\* message itself, and of the other messages only the content may differ
C21_CompressKeepsSystemMessages ==
    Returned("compress") =>
        LET input == fn_call.messages
            output == fn_result.value.messages
        IN  /\ Len(output) = Len(input)
            /\ \A i \in 1..Len(input) :
                   /\ DOMAIN output[i] = DOMAIN input[i]
                   /\ output[i].role = input[i].role
                   /\ input[i].role = "system" => output[i] = input[i]

\* compress has shortened a user message of a list with two system messages
C21_Witness ==
    /\ Returned("compress")
    /\ Cardinality({i \in 1..Len(fn_call.messages) :
                        fn_call.messages[i].role = "system"}) = 2
    /\ \E i \in 1..Len(fn_call.messages) :
           /\ fn_call.messages[i].role = "user"
           /\ fn_result.value.messages[i].content # fn_call.messages[i].content

\* the routing decision table of the policy engine, row by row
Whitelisted(policy, name) ==
    \E i \in 1..Len(policy.whitelisted_providers) :
        lower(policy.whitelisted_providers[i]) = name
CloudAllowedByPolicy(policy) ==
    policy.allow_cloud /\ (Whitelisted(policy, "groq") \/ Whitelisted(policy, "openai"))
FirstWhitelistedCloud(policy, preferred_cloud) ==
    IF Whitelisted(policy, lower(preferred_cloud)) THEN lower(preferred_cloud)
    ELSE IF Whitelisted(policy, "groq") THEN "groq"
    ELSE "openai"
ModelOf(provider) == IF provider = "groq" THEN GROQ_MODEL ELSE OPENAI_MODEL
DecisionTable(policy, token_count, preferred_cloud) ==
    CASE ~CloudAllowedByPolicy(policy) -> [route |-> "LOCAL", model |-> LOCAL_MODEL]
      [] CloudAllowedByPolicy(policy) /\ policy.mode = "BALANCED"
            /\ token_count < TOKEN_THRESHOLD ->
            [route |-> "LOCAL", model |-> LOCAL_MODEL]
      [] OTHER ->
            [route |-> "CLOUD",
             model |-> ModelOf(FirstWhitelistedCloud(policy, preferred_cloud))]

\* C22: for policy mode BALANCED or PERFORMANCE decide_route returns the
\* decision of the table: LOCAL when the policy does not allow cloud; under
\* BALANCED with cloud allowed, LOCAL below the token threshold and CLOUD from
\* the threshold on; under PERFORMANCE with cloud allowed, CLOUD for every
\* token count; on CLOUD the model of the first whitelisted cloud provider,
\* the preferred one first, then groq, then openai
C22_DecisionTable ==
    (Returned("decide_route") /\ fn_call.policy.mode \in {"BALANCED", "PERFORMANCE"}) =>
        fn_result.value =
            DecisionTable(fn_call.policy, fn_call.token_count, fn_call.preferred_cloud)

\* a BALANCED policy that whitelists only openai, a prompt of exactly the
\* threshold and groq preferred: CLOUD on the openai model
C22_Witness ==
    /\ Returned("decide_route")
    /\ fn_call.policy.mode = "BALANCED"
    /\ fn_call.policy.allow_cloud
    /\ fn_call.policy.whitelisted_providers = <<"OPENAI">>
    /\ fn_call.preferred_cloud = "GROQ"
    /\ fn_call.token_count = TOKEN_THRESHOLD
    /\ fn_result.value = [route |-> "CLOUD", model |-> OPENAI_MODEL]

-----------------------------------------------------------------------------
(* Claims about the client's mode and the handler's exits, under Spec *)

\* C23: with the default policy in force, a request sent with client mode
\* PERFORMANCE whose prompt contains PII is routed CLOUD and answered with
\* privacy level BALANCED, whatever its token count.
C23_PerformanceClientRoutedCloud ==
    (Responded /\ frame.input_ok /\ mcp_req.policy = MCPPolicy_default
        /\ req.mode = "PERFORMANCE" /\ response.redaction_count > 0) =>
        /\ response.route = "CLOUD"
        /\ response.privacy_level = "BALANCED"

\* C24: every admitted request ends with a well-formed response: no exception
\* of a pipeline stage leaves the handler, so the handler never ends in an
\* unhandled error and what it returns is a response body with status 200.
C24_NoStageRaisesOut ==
    /\ gw_pc # "failed"
    /\ Finished => response.kind \in {"GatewayResponse", "MCPResponse"}

\* the audit entries of a stage, and whether an entry carries error metadata
EntriesOf(stage) ==
    {i \in 1..Len(mcp_req.audit_trail) : mcp_req.audit_trail[i].stage = stage}
HasErrorStatus(entry) ==
    /\ entry.metadata # NoExtra
    /\ "status" \in DOMAIN entry.metadata
    /\ entry.metadata.status = "error"

\* C25: when policy fetch, memory retrieval or compression fails the pipeline
\* goes on with the default (default policy, no context, the messages as built
\* with 0 tokens saved), and the audit entry of the failed stage is emitted
\* and carries error metadata (status = error).
C25_FailedStageAuditedAsError ==
    \A stage \in frame.failed \cap
            {Stages.POLICY_FETCH, Stages.MEMORY_RETRIEVAL, Stages.PROMPT_COMPRESS} :
        /\ gw_pc # "failed"
        /\ stage = Stages.POLICY_FETCH => mcp_req.policy = MCPPolicy_default
        /\ stage = Stages.MEMORY_RETRIEVAL => frame.context_snippets = <<>>
        /\ stage = Stages.PROMPT_COMPRESS =>
               frame.compressed_msgs = frame.messages /\ frame.tokens_saved = 0
        /\ EntriesOf(stage) # {}
        /\ \A i \in EntriesOf(stage) : HasErrorStatus(mcp_req.audit_trail[i])

\* the memory-store tasks scheduled so far
MemoryTasks ==
    {i \in 1..Len(background_tasks) : background_tasks[i].task # "_mcp_log_datahaven"}

\* C26: within one request the output guardrails check the model output before
\* the PII is put back; unmask is applied once, to the text the guardrails
\* returned; clear(request_id) follows it; both come before the memory-store
\* task is scheduled; and the task stores the text made from masked_prompt
\* and the content as they were when it was scheduled.
C26_UnmaskClearThenSchedule ==
    [][/\ frame'.final_response # frame.final_response =>
              \/ /\ gw_pc = Stages.OUTPUT_GUARDRAILS
                 /\ frame'.final_response = output_guardrails_check(frame.raw_response).text
                 /\ redaction_store' = redaction_store
              \/ /\ gw_pc = Stages.POST_PROCESS
                 /\ frame.final_response = output_guardrails_check(frame.raw_response).text
                 /\ frame'.final_response =
                        unmask(frame.final_response, mcp_req.request_id, redaction_store)
       /\ (gw_pc = Stages.POST_PROCESS /\ gw_pc' # gw_pc) =>
              /\ gw_pc' = "respond"
              /\ mcp_req.request_id \notin DOMAIN redaction_store'
              /\ background_tasks' = <<>>
       /\ Len(background_tasks') > Len(background_tasks) =>
              /\ gw_pc = "respond"
              /\ mcp_req.request_id \notin DOMAIN redaction_store
              /\ UNCHANGED frame
              /\ \A i \in 1..Len(background_tasks') :
                     background_tasks'[i].task # "_mcp_log_datahaven" =>
                         \E content \in {Truncate(frame.final_response, SNIPPET_LEN),
                                         Truncate(frame.raw_response, SNIPPET_LEN)} :
                             background_tasks'[i].text =
                                 MemoryText(frame.masked_prompt, content)
       /\ gw_pc = "done" =>
              /\ UNCHANGED <<frame, redaction_store>>
              /\ \A i \in 1..Len(background_tasks') :
                     \E j \in 1..Len(background_tasks) :
                         background_tasks'[i] = background_tasks[j]
              /\ memory_docs' # memory_docs =>
                     /\ MemoryTasks # {}
                     /\ \E d \in 1..Len(memory_docs') :
                            /\ memory_docs'[d].id = mcp_req.request_id
                            /\ memory_docs'[d].text = Head(background_tasks).text
      ]_vars

\* a request whose e-mail address the model echoed: the guardrails passed the
\* placeholder, unmask put the address back, the store was cleared, and the
\* memory task has written its document
C26_Witness ==
    /\ gw_pc = "done"
    /\ frame.redaction_count > 0
    /\ frame.final_response_candidate = frame.raw_response
    /\ frame.final_response # frame.final_response_candidate
    /\ mcp_req.request_id \notin DOMAIN redaction_store
    /\ background_tasks = <<>>
    /\ \E d \in 1..Len(memory_docs) : memory_docs[d].id = mcp_req.request_id

\* C27: the pipeline enforces the token limit of the policy: a request whose
\* prompt counts more tokens than policy.max_tokens is not sent to inference
\* (enforce_token_limit rejects exactly when token_count > max_tokens).
C27_OverLimitNotInferred ==
    /\ Returned("enforce_token_limit") =>
           (fn_result.value.allowed <=> fn_call.token_count <= fn_call.policy.max_tokens)
    /\ backend_calls # <<>> =>
           /\ enforce_token_limit(mcp_req.policy, frame.tokens_before).allowed
           /\ enforce_token_limit(mcp_req.policy, frame.tokens_after).allowed

-----------------------------------------------------------------------------
(* Claims about the provider registry, under SpecFn *)

\* the positions of the fallback order strictly after `current` whose
\* provider is on the whitelist and available
FallbackCandidates(current, whitelist, available) ==
    {i \in 1..Len(_fallback_order) :
        /\ \E c \in 1..Len(_fallback_order) :
               lower(_fallback_order[c]) = lower(current) /\ c < i
        /\ \E w \in 1..Len(whitelist) : lower(whitelist[w]) = _fallback_order[i]
        /\ _fallback_order[i] \in RegisteredProviders \cap available}

\* C28: get_fallback(current, whitelist) returns the first provider strictly
\* after current in the order local, groq, mistral, openrouter, openai that is
\* on the policy whitelist, registered and available, and none when there is
\* no such provider: for every current provider, availability and whitelist,
\* the empty whitelist and a current name outside the order included.
C28_FallbackIsNextWhitelisted ==
    Returned("get_fallback") =>
        LET candidates == FallbackCandidates(fn_call.current, fn_call.policy_whitelist,
                                             fn_call.available)
        IN  IF candidates = {} THEN fn_result.value = None
            ELSE fn_result.value =
                     Some(_fallback_order[CHOOSE i \in candidates :
                                              \A j \in candidates : i <= j])

-----------------------------------------------------------------------------
(* Claims about the model output, under Spec *)

\* the output guardrails blocked the model output of the request
OutputBlocked ==
    /\ gw_pc \in {Stages.POST_PROCESS, "respond", "done"}
    /\ frame.input_ok
    /\ ~frame.output_ok

\* inference ended in a string that begins with [Error]
InferenceError ==
    /\ InferenceDone
    /\ frame.raw_response # <<>>
    /\ Head(frame.raw_response) = "[Error]"

\* C29: when the output guardrails block a model output, the response content
\* and output_reason are the fixed safe message, output_filtered is true, and
\* the raw model output is in no field of the response and is not the content
\* stored in memory; a string of inference that begins with [Error] is never
\* blocked and is the response content, unchanged.
C29_BlockedOutputReplaced ==
    /\ (OutputBlocked /\ Responded) =>
           /\ response.response = SAFE_MESSAGE
           /\ response.guardrails.output_reason = SAFE_MESSAGE
           /\ response.guardrails.output_filtered
           /\ response.response # frame.raw_response
           /\ \A t \in StoreTexts : t = MemoryText(frame.masked_prompt, SAFE_MESSAGE)
    /\ (InferenceError /\ gw_pc \in {Stages.POST_PROCESS, "respond", "done"}) =>
           frame.output_ok
    /\ (InferenceError /\ Responded) =>
           /\ response.response = frame.raw_response
           /\ ~response.guardrails.output_filtered

\* the harmful output of a request with PII was blocked and the memory task
\* has stored its document
C29_Witness ==
    /\ OutputBlocked
    /\ Responded
    /\ frame.redaction_count > 0
    /\ "harm" \in Range(frame.raw_response)
    /\ background_tasks = <<>>
    /\ \E d \in 1..Len(memory_docs) : memory_docs[d].id = mcp_req.request_id

-----------------------------------------------------------------------------
(* Claims about inference, under SpecFn *)

\* the call of a provider failed: no API key, or the backend did not answer
\* with a usable body
InferFailed ==
    \/ fn_call.name # "local" /\ ~fn_call.configured
    \/ fn_call.outcome # "ok"

-----------------------------------------------------------------------------
(* Claims about the masked prompt, under Spec *)

\* C31: after mask(text, id) the masked text that goes on to memory retrieval
\* and to inference contains no original value of the redaction map, also when
\* the same PII value occurs more than once in the prompt.
C31_MaskedPromptHasNoOriginal ==
    MaskCalled =>
        /\ Range(frame.masked_prompt) \cap MapValues(frame.redaction_map) = {}
        /\ \A c \in 1..Len(backend_calls) :
               \A m \in 1..Len(backend_calls[c].messages) :
                   Range(backend_calls[c].messages[m].content)
                       \cap MapValues(frame.redaction_map) = {}

-----------------------------------------------------------------------------
(* Claims about concurrent requests, under SpecPII *)

\* the map that the latest mask call of a request stored
OwnMap(id) == mask(pii_prompt[id], nlp).map

\* every request has ended: its map was cleared or its handler raised
AllFinished == \A id \in PiiIds : pii_phase[id] \in {"cleared", "raised"}

\* mask, unmask and clear of the other requests left the map of a masked
\* request as its own mask stored it, and unmask used that map
MapsAreIsolated ==
    /\ \A id \in PiiIds :
           pii_phase[id] = "masked" =>
               id \in DOMAIN redaction_store /\ redaction_store[id] = OwnMap(id)
    /\ \A id \in PiiIds : pii_phase[id] = "cleared" => id \notin DOMAIN redaction_store
    /\ (last_unmask.id \in PiiIds /\ last_unmask.phase = "masked") =>
           last_unmask.output = UnmaskWith(last_unmask.input, OwnMap(last_unmask.id))

\* C32: under any interleaving of requests with distinct ids, mask, unmask and
\* clear of one request never read, overwrite or remove the redaction map of
\* another, unmask uses the map that the request's own mask stored, and once
\* all requests have finished the redaction store is empty.
C32_IsolatedAndEmptyAtEnd ==
    /\ MapsAreIsolated
    /\ AllFinished => DOMAIN redaction_store = {}

-----------------------------------------------------------------------------
(* Claims about the buckets of the rate limiter, under SpecRL *)

\* a bucket with only timestamps newer than t - window, oldest first
PrunedAndOrdered(ts_list, t) ==
    /\ \A i \in 1..Len(ts_list) : ts_list[i] > t - WindowTicks
    /\ \A i, j \in 1..Len(ts_list) : i < j => ts_list[i] <= ts_list[j]

\* C33: after any access to a key's bucket, by is_allowed or by record, the
\* bucket holds only timestamps newer than now - window, in non-decreasing
\* order.
C33_BucketPrunedOnAccess ==
    [][\A ip \in RlKeys :
           (MwCheck(ip) \/ \E o \in HandlerOutcomes : MwResume(ip, 200, o.route)) => PrunedAndOrdered(timestamps'[ip], now')
      ]_vars

-----------------------------------------------------------------------------
(* Claims about the audit trail, under Spec *)

\* the position of a stage in the pipeline
StageIndex(stage) == CHOOSE k \in 1..Len(PIPELINE_ORDER) : PIPELINE_ORDER[k] = stage

\* the number of stages that have run to their end
StagesExecuted ==
    CASE gw_pc = "idle" -> 0
      [] gw_pc \in Range(PIPELINE_ORDER) -> StageIndex(gw_pc) - 1
      [] gw_pc = "failed" -> StageIndex(Stages.PROMPT_BUILD) - 1
      [] gw_pc \in {"respond", "done"} /\ ~frame.input_ok ->
            StageIndex(Stages.INPUT_GUARDRAILS)
      [] OTHER -> Len(PIPELINE_ORDER)

\* C34: the audit trail of a request is append-only: every emit_event or
\* emit_error call appends one entry at the end (one per stage that ran, and
\* the emit_error of a prompt blocked on /gateway), the entries already there
\* are never modified, reordered or removed, and the trail is always at least
\* as long as the number of stages executed so far.
C34_AuditTrailAppendOnly ==
    [][/\ IsPrefix(mcp_req.audit_trail, mcp_req.audit_trail')
       /\ Len(mcp_req.audit_trail') - Len(mcp_req.audit_trail) =
              (IF gw_pc \in Range(PIPELINE_ORDER) /\ gw_pc' # "failed"
               THEN (IF IsGateway /\ gw_pc = Stages.INPUT_GUARDRAILS /\ ~frame'.input_ok
                     THEN 2 ELSE 1)
               ELSE 0)
       /\ Len(mcp_req.audit_trail') >= StagesExecuted'
      ]_vars

\* a prompt blocked on /gateway: the entry of emit_event and, after it, the
\* entry of emit_error
C34_Witness ==
    /\ gw_pc = "done"
    /\ IsGateway
    /\ ~frame.input_ok
    /\ Len(mcp_req.audit_trail) > StagesExecuted
    /\ HasErrorStatus(mcp_req.audit_trail[Len(mcp_req.audit_trail)])

-----------------------------------------------------------------------------
(* Claims about the compressor, under SpecFn *)

\* s can be made from t by leaving words out
RECURSIVE IsSubsequence(_, _)
IsSubsequence(s, t) ==
    IF s = <<>> THEN TRUE
    ELSE IF t = <<>> THEN FALSE
    ELSE IF Head(s) = Head(t) THEN IsSubsequence(Tail(s), Tail(t))
    ELSE IsSubsequence(s, Tail(t))

\* the least integer not below 0.6 * n
CeilSixTenths(n) == (6 * n + 9) \div 10

\* C35: for a non-system message of N words the compressor keeps words in
\* their original order, never more than the ceiling of 0.6 N of them, returns
\* a non-empty result whenever N >= 1, and, when every word is a stop word,
\* returns the first ceiling-of-0.6-N words unfiltered.
C35_CompressorKeepsSixTenths ==
    Returned("_lightweight_compress") =>
        LET words == split(fn_call.text)
            result == fn_result.value
        IN  Len(words) >= 1 =>
                /\ IsSubsequence(result, words)
                /\ Len(result) <= CeilSixTenths(Len(words))
                /\ result # <<>>
                /\ Range(words) \subseteq STOP_WORDS =>
                       result = SubSeq(words, 1, CeilSixTenths(Len(words)))

-----------------------------------------------------------------------------
(* Claims about repeated failover, under SpecFn *)

\* the position of a provider name in the fallback order, 0 for a name the
\* order does not have
OrderIndex(name) ==
    IF \E i \in 1..Len(_fallback_order) : _fallback_order[i] = lower(name)
    THEN CHOOSE i \in 1..Len(_fallback_order) : _fallback_order[i] = lower(name)
    ELSE 0

\* the first failing provider is one of the registered providers
FailoverOfProvider ==
    fn_call.fn = "get_fallback" /\ OrderIndex(fn_call.first) > 0

\* C36: repeated failover, get_fallback called with the provider it returned
\* last under a fixed whitelist and availability, moves strictly forward in
\* the fallback order: no provider is returned twice, no provider earlier in
\* the order than the failing one is returned, and the chain ends with none
\* after at most 4 hops.
C36_FailoverStrictlyAdvances ==
    FailoverOfProvider =>
        /\ \A i, j \in 1..Len(fn_call.chain) :
               i < j => OrderIndex(fn_call.chain[i]) < OrderIndex(fn_call.chain[j])
        /\ \A i \in 1..Len(fn_call.chain) :
               OrderIndex(fn_call.chain[i]) > OrderIndex(fn_call.first)
        /\ Len(fn_call.chain) <= Len(_fallback_order) - 1
        /\ (fn_result.returned /\ fn_result.value # None) =>
               /\ OrderIndex(fn_result.value[1]) > OrderIndex(fn_call.current)
               /\ fn_result.value[1] \notin Range(fn_call.chain)
        /\ (fn_result.returned /\ Len(fn_call.chain) = Len(_fallback_order) - 1) =>
               fn_result.value = None

\* local failed and every provider after it failed in turn: four hops, then
\* none
C36_Witness ==
    /\ FailoverOfProvider
    /\ fn_call.first = "local"
    /\ fn_call.chain = <<"groq", "mistral", "openrouter", "openai">>
    /\ fn_result.returned
    /\ fn_result.value = None

-----------------------------------------------------------------------------
(* Claims about a denied key, under SpecRL *)

\* C37: a key that is denied is allowed again once window_seconds have passed
\* since its oldest recorded timestamp inside the window, provided no request
\* of the key is recorded meanwhile; denied attempts add nothing to the bucket
\* and do not postpone that moment.
C37_AllowedAgainAfterWindow ==
    \A k \in RlKeys :
        LET denied == is_allowed(timestamps[k], now)
            again == SeqMin(denied.ts_list) + WindowTicks
        IN  ~denied.allowed =>
                /\ is_allowed(denied.ts_list, again).allowed
                /\ \A t \in now..again :
                       LET attempt == is_allowed(denied.ts_list, t)
                       IN  /\ Range(attempt.ts_list) \subseteq Range(denied.ts_list)
                           /\ Len(attempt.ts_list) <= Len(denied.ts_list)
                           /\ is_allowed(attempt.ts_list, again).allowed

\* C38: only a request whose path is exactly /gateway is checked against the
\* rate limiter and recorded in it. A request to another path, /mcp/gateway
\* included, goes to its handler without an admission check, is never answered
\* 429 by the middleware, and changes no bucket.
C38_OnlyGatewayPathLimited ==
    [][/\ (rl_response' # rl_response /\ rl_response'.path # "/gateway") =>
              /\ timestamps' = timestamps
              /\ in_flight' = in_flight
              /\ rl_response'.status \in HandlerStatuses
              /\ ~rl_response'.recorded
       /\ (timestamps' # timestamps \/ in_flight' # in_flight) =>
              (rl_response' = rl_response \/ rl_response'.path = "/gateway")]_vars

\* the bucket of the key is full, a /gateway request of the key would be turned
\* away, and its request to /mcp/gateway was answered 200
C38_Witness ==
    /\ ~is_allowed(timestamps["ip1"], now).allowed
    /\ rl_response.path = "/mcp/gateway"
    /\ rl_response.status = 200
    /\ ~rl_response.recorded

\* C39: a /gateway request that the input guardrails blocked is answered 200
\* with route BLOCKED, and the middleware records it in the client's bucket
\* as it records an answered prompt: the current time is appended, and once
\* max_requests such timestamps are inside the window the next request of the
\* client is turned away.
C39_BlockedPromptRecorded ==
    [][\A k \in RlKeys :
          (in_flight'[k] < in_flight[k] /\ rl_response'.route = "BLOCKED") =>
              /\ rl_response'.status = 200
              /\ rl_response'.recorded
              /\ timestamps'[k] = Append(timestamps[k], now)
              /\ Len(Prune(timestamps'[k], now - WindowTicks)) >= max_requests =>
                     ~is_allowed(timestamps'[k], now').allowed]_vars

\* a blocked prompt filled the bucket: max_requests timestamps inside the
\* window, the last one from the blocked answer, and the key is turned away
C39_Witness ==
    /\ rl_response.path = "/gateway"
    /\ rl_response.route = "BLOCKED"
    /\ rl_response.recorded
    /\ Len(InWindow("ip1")) = max_requests
    /\ ~is_allowed(timestamps["ip1"], now).allowed

-----------------------------------------------------------------------------
(* Claim about DataHavenClient.is_available, under SpecFn *)

\* C40: is_available caches only a successful check. After a failed health
\* check a later call probes the service again, so a call made while the
\* service answers 200 returns true.
C40_FailedCheckNotCached ==
    (/\ fn_call.fn = "is_available"
     /\ fn_result.returned
     /\ ~fn_call.health.raised
     /\ fn_call.health.status_code = 200) => fn_result.value = TRUE

=============================================================================
